---- MODULE Spec2Model ----
(***************************************************************************)
(* Model of the perma-blob block monitor: the scan loop of                 *)
(* blob-monitor/monitor.ts (startMonitor.monitorLoop, processBlockRange,   *)
(* processBlockNumber, sleep), the block scanner of                        *)
(* blob-monitor/block-processor.ts, the cursor store of                    *)
(* database/repositories/monitor-state.ts and the job hand-off and         *)
(* shutdown path of the process entry point; and of the blob fetcher:      *)
(* fetchBlobsForJob of blob-fetcher/fetcher.ts (Beacon REST API).          *)
(***************************************************************************)
EXTENDS Integers, Sequences, FiniteSets, TLC

(***************************************************************************)
(* Bounds of the model.                                                    *)
(***************************************************************************)
\* number of head queries the chain client answers in one run
MaxIter == 2
\* number of upstream failures (RPC, cursor store, queue) the environment injects
MaxFaults == 1
\* largest configured batchSize explored
MaxBatchSize == 2
\* largest number of transactions in a block passed to the scanner on its own
MaxTxs == 2
\* largest configured retryCount explored besides the default
MaxRetryCount == 2
\* largest number of sidecars in a Beacon API response
MaxSidecars == 2
\* number of fetchBlobsForJob calls in one run
MaxFetches == 2
\* payloads pushed to the fetch list in one run of the worker
MaxJobs == 3
\* restarts of the monitor process, and the highest block a range is committed to
MaxRestarts == 2
MaxCommitted == 6

(***************************************************************************)
(* Program constants.                                                      *)
(***************************************************************************)
\* monitor.ts:146  const maxBlocks = fromBlock + 99n
WindowSpan == 99
\* monitor.ts:142  config.confirmations || 3
DefaultConfirmations == 3
\* monitor.ts:81   config.batchSize || 10
DefaultBatchSize == 10
\* blob fetcher, line 12: defaultFetcherConfigValues.retryCount
DefaultRetryCount == 3
\* blob fetcher, lines 61-63: the mainnet merge timestamp and slot, seconds per slot
MERGE_TIMESTAMP == 1663224179
MERGE_SLOT == 4700013
SECONDS_PER_SLOT == 12

\* null of an address or hash field (these are sequences), and of a block number
Null == << >>
NoBlock == -1

Min(a, b) == IF a < b THEN a ELSE b
Max(a, b) == IF a > b THEN a ELSE b

(***************************************************************************)
(* Inputs: the configuration and the chain the client serves.              *)
(***************************************************************************)
\* chain heads the client's getBlockNumber may report, in any order
Heads == {2, 5, 8}
\* heads after downtime: 104 is far enough ahead of the cursor for the
\* catch-up window to cut the range, 101 is behind a cursor that a full window
\* has moved
FarHeads == {101, 104}
\* config.ethereum.confirmations (validated positive by the config schema)
ConfirmationsSet == {2}
BatchSizes == 1..MaxBatchSize
\* values found in the cursor store at start-up (0: no row)
PersistedStarts == {0, 4}
\* config.blocksFromHead (0 stands for undefined / 0)
BlocksFromHeadSet == {0, 2}

\* addresses are sequences of characters so that letter case is modelled
Lower(c) == CASE c = "A" -> "a" [] c = "B" -> "b" [] c = "C" -> "c" [] OTHER -> c
toLowerCase(addr) == [i \in DOMAIN addr |-> Lower(addr[i])]

baseContracts == << <<"a", "B">> >>
l2Source == "base"

Tx(hash, type, to, hashes) ==
    [hash |-> hash, type |-> type, from |-> <<"f", hash>>, to |-> to,
     blobVersionedHashes |-> hashes]

\* the block the chain client returns for a block number: with hydrated
\* bodies, but for block 4, whose transactions it returns as hashes only
Chain(b) ==
    [number |-> b, hash |-> <<"h", b>>, timestamp |-> 1000 + 12 * b,
     hydrated |-> b # 4,
     transactions |->
        CASE b = 2 -> << Tx("t1", "eip4844", <<"A", "b">>, <<"v1", "v2">>),
                         Tx("t2", "eip1559", <<"a", "b">>, <<>>),
                         Tx("t3", "eip4844", <<"a", "b">>, <<"v3">>) >>
          [] b = 3 -> << Tx("t4", "eip4844", <<"c", "c">>, <<"v4">>),
                         Tx("t5", "eip4844", Null, <<"v5">>) >>
          [] b = 4 -> << Tx("t11", "eip4844", <<"a", "b">>, <<"v11">>) >>
          [] b = 5 -> << Tx("t6", "eip4844", <<"A", "B">>, <<"v6">>) >>
          [] b = 7 -> << Tx("t7", "eip4844", <<"a", "B">>, <<"v7">>),
                         Tx("t8", "eip4844", <<"c", "c">>, <<"v8">>),
                         Tx("t9", "eip4844", <<"A", "b">>, <<"v9", "v7">>) >>
          [] b = 8 -> << Tx("t10", "eip4844", <<"a", "b">>, <<"v10">>) >>
          [] OTHER -> << >>]

(***************************************************************************)
(* block-processor.ts                                                      *)
(***************************************************************************)
RECURSIVE SelectSeqBy(_, _)
SelectSeqBy(s, keep) ==
    IF s = << >> THEN << >>
    ELSE IF Head(s) \in keep THEN <<Head(s)>> \o SelectSeqBy(Tail(s), keep)
    ELSE SelectSeqBy(Tail(s), keep)

\* mutant of isRelevantBlobTransaction: the destination is looked up as written
isRelevantBlobTransactionExact(tx, monitoredContracts) ==
    /\ tx.type = "eip4844"
    /\ tx.to # Null
    /\ tx.to \in monitoredContracts
    /\ Len(tx.blobVersionedHashes) > 0

isRelevantBlobTransaction(tx, monitoredContracts) ==
    /\ tx.type = "eip4844"
    /\ tx.to # Null
    /\ toLowerCase(tx.to) \in monitoredContracts
    /\ Len(tx.blobVersionedHashes) > 0

\* the filter and map of lines 49-65
jobsOfTransactions(block, contracts, source) ==
    LET monitoredContracts == {toLowerCase(contracts[i]) : i \in DOMAIN contracts}
        relevant == {block.transactions[i] : i \in
                       {j \in DOMAIN block.transactions :
                          isRelevantBlobTransaction(block.transactions[j],
                                                    monitoredContracts)}}
        kept == SelectSeqBy(block.transactions, relevant)
    IN [i \in DOMAIN kept |->
          [blockNumber |-> block.number,
           blockHash |-> block.hash,
           timestamp |-> block.timestamp,
           txHash |-> kept[i].hash,
           from |-> kept[i].from,
           blobVersionedHashes |-> kept[i].blobVersionedHashes,
           l2Source |-> source]]

\* mutant of createProcessingJobsForBlock: the guards of lines 27-47 are missing
createProcessingJobsForBlockUnguarded(block, contracts, source) ==
    jobsOfTransactions(block, contracts, source)

createProcessingJobsForBlock(block, contracts, source) ==
    IF block.number = NoBlock \/ block.hash = Null THEN << >>
    ELSE IF Len(block.transactions) = 0 THEN << >>
    ELSE IF ~block.hydrated THEN << >>
    ELSE jobsOfTransactions(block, contracts, source)

\* the jobs processBlockNumber obtains for a block number
JobsOf(b) == createProcessingJobsForBlock(Chain(b), baseContracts, l2Source)

(***************************************************************************)
(* json-utils.ts and the JSON calls of the producer and the fetcher worker *)
(***************************************************************************)
\* A JavaScript value is [t, v] with t what typeof gives, or "array":
\* "bigint" and "number" hold an integer, "array" an array of strings.  The
\* v of a "string" that is a block number or a timestamp is the sequence of
\* its characters ('0x1f' is <<"0", "x", "1", "f">>); the other strings are
\* not looked into.  A character is the string a JavaScript string literal
\* writes it with: itself when it is a printable ASCII character, else its
\* escape, "\\v" for the vertical tab and "\\u00A0" for the no-break space;
\* tab, line feed, form feed and carriage return are also read in the form
\* "\t", "\n", "\f", "\r".  An object is the sequence of its [key, value]
\* properties.

\* a ProcessingJob as the scanner builds it (types.ts lines 21-29)
ProcessingJob(job) ==
    << [key |-> "blockNumber", value |-> [t |-> "bigint", v |-> job.blockNumber]],
       [key |-> "blockHash", value |-> [t |-> "string", v |-> job.blockHash]],
       [key |-> "timestamp", value |-> [t |-> "bigint", v |-> job.timestamp]],
       [key |-> "txHash", value |-> [t |-> "string", v |-> job.txHash]],
       [key |-> "from", value |-> [t |-> "string", v |-> job.from]],
       [key |-> "blobVersionedHashes",
        value |-> [t |-> "array", v |-> job.blobVersionedHashes]],
       [key |-> "l2Source", value |-> [t |-> "string", v |-> job.l2Source]] >>

\* BigInt.prototype.toString and Number.prototype.toString of an integer:
\* its decimal digits, after a minus sign when it is negative
RECURSIVE toString(_)
toString(n) ==
    LET digit == <<"0", "1", "2", "3", "4", "5", "6", "7", "8", "9">>
    IN IF n < 0 THEN <<"-">> \o toString(0 - n)
       ELSE IF n < 10 THEN <<digit[n + 1]>>
       ELSE toString(n \div 10) \o <<digit[(n % 10) + 1]>>

\* the integer written by the digits chars in the radix, -1 when a character
\* is no digit of the radix
RECURSIVE parseDigits(_, _)
parseDigits(chars, radix) ==
    IF chars = << >> THEN 0
    ELSE LET c == chars[Len(chars)]
             d == CASE c = "0" -> 0 [] c = "1" -> 1 [] c = "2" -> 2 [] c = "3" -> 3
                    [] c = "4" -> 4 [] c = "5" -> 5 [] c = "6" -> 6 [] c = "7" -> 7
                    [] c = "8" -> 8 [] c = "9" -> 9
                    [] c \in {"a", "A"} -> 10 [] c \in {"b", "B"} -> 11
                    [] c \in {"c", "C"} -> 12 [] c \in {"d", "D"} -> 13
                    [] c \in {"e", "E"} -> 14 [] c \in {"f", "F"} -> 15
                    [] OTHER -> radix
             rest == parseDigits(SubSeq(chars, 1, Len(chars) - 1), radix)
         IN IF d >= radix \/ rest = -1 THEN -1 ELSE radix * rest + d

\* BigInt(value) of a string: << >> when it throws the SyntaxError, else
\* <<n>>.  White space and line terminators around the text are dropped
\* (StrWhiteSpaceChar of ECMAScript); the empty text is 0; the text is decimal
\* digits after an optional sign, or hexadecimal, octal or binary digits
\* after 0x, 0o or 0b (no sign)
BigInt(chars) ==
    LET StrWhiteSpaceChar ==
            {" ", "\t", "\n", "\f", "\r",
             "\\t", "\\n", "\\v", "\\f", "\\r", "\\u00A0", "\\u1680",
             "\\u2000", "\\u2001", "\\u2002", "\\u2003", "\\u2004", "\\u2005",
             "\\u2006", "\\u2007", "\\u2008", "\\u2009", "\\u200A", "\\u2028",
             "\\u2029", "\\u202F", "\\u205F", "\\u3000", "\\uFEFF"}
        inked == {i \in DOMAIN chars : chars[i] \notin StrWhiteSpaceChar}
        trimmed == IF inked = {} THEN << >>
                   ELSE SubSeq(chars, CHOOSE i \in inked : \A k \in inked : i <= k,
                                      CHOOSE i \in inked : \A k \in inked : i >= k)
        n == Len(trimmed)
        radix == IF n >= 2 /\ trimmed[1] = "0"
                 THEN CASE trimmed[2] \in {"x", "X"} -> 16
                        [] trimmed[2] \in {"o", "O"} -> 8
                        [] trimmed[2] \in {"b", "B"} -> 2
                        [] OTHER -> 10
                 ELSE 10
        signed == radix = 10 /\ n >= 1 /\ trimmed[1] \in {"+", "-"}
        digits == IF radix # 10 THEN SubSeq(trimmed, 3, n)
                  ELSE IF signed THEN Tail(trimmed) ELSE trimmed
        magnitude == parseDigits(digits, radix)
    IN IF n = 0 THEN <<0>>
       ELSE IF digits = << >> \/ magnitude = -1 THEN << >>
       ELSE IF signed /\ trimmed[1] = "-" THEN <<0 - magnitude>>
       ELSE <<magnitude>>

\* json-utils.ts lines 7-12
bigIntReplacer(key, value) ==
    IF value.t = "bigint" THEN [t |-> "string", v |-> toString(value.v)]
    ELSE value

\* json-utils.ts lines 21-35: a string under one of the two keys becomes the
\* big integer BigInt makes of it; when BigInt throws, the string is returned
bigIntReviver(key, value) ==
    IF (key = "blockNumber" \/ key = "timestamp") /\ value.t = "string"
    THEN LET n == BigInt(value.v)
         IN IF n = << >> THEN value ELSE [t |-> "bigint", v |-> n[1]]
    ELSE value

\* JSON.stringify(object, replacer): << >> when it throws the TypeError
\* "Do not know how to serialize a BigInt", else <<text>>, the text being the
\* sequence of the properties' literals; a number is written in digits
JSONstringify(object, replacer) ==
    LET replaced ==
          [i \in DOMAIN object |->
             IF replacer = "bigIntReplacer"
             THEN bigIntReplacer(object[i].key, object[i].value)
             ELSE object[i].value]
    IN IF \E i \in DOMAIN object : replaced[i].t = "bigint" THEN << >>
       ELSE << [i \in DOMAIN object |->
                  [key |-> object[i].key,
                   literal |-> IF replaced[i].t = "number"
                               THEN [t |-> "number", digits |-> toString(replaced[i].v)]
                               ELSE replaced[i]]] >>

\* JSON.parse(text, reviver) of a text JSON.stringify wrote
JSONparse(text, reviver) ==
    [i \in DOMAIN text |->
       LET value == IF text[i].literal.t = "number"
                    THEN [t |-> "number", v |-> BigInt(text[i].literal.digits)[1]]
                    ELSE text[i].literal
       IN [key |-> text[i].key,
           value |-> IF reviver = "bigIntReviver"
                     THEN bigIntReviver(text[i].key, value)
                     ELSE value]]

(***************************************************************************)
(* State.                                                                  *)
(***************************************************************************)
VARIABLES
    config,              \* MonitorConfig: confirmations, batchSize
    heads,               \* heads the chain client may report in this run
    persisted,           \* monitor_state.last_processed_block (the cursor store)
    lastProcessedBlock,  \* currentState.lastProcessedBlock (the in-memory cursor)
    aborted,             \* abortController.signal.aborted
    pc,                  \* where monitorLoop is suspended
    latestBlock,         \* latestBlock of the current iteration
    fromBlock, toBlock,  \* range of the current iteration
    currentBlock, batchEnd, \* sub-batch of processBlockRange
    tasks,               \* processBlockNumber calls in flight
    scanned,             \* blocks whose task of the current iteration resolved
    emitted,             \* per task <<iter, block>>: the jobs handed to onBlobFound, in call order
    fetchQueue,          \* blob_fetch_jobs_queue (head is the newest element)
    iter,                \* number of head queries answered
    faults,              \* upstream failures injected so far
    shutdownPc,          \* where the shutdown handler is
    cursorBefore, persistedBefore, \* cursors when the current iteration began
    outcome,             \* how the latest iteration ended
    prevFailedFrom,      \* from of the previous iteration when its range failed
    cancelTo             \* to of the range in flight when stop was called

\* one call of createProcessingJobsForBlock, and the call repeated
VARIABLES
    scanBlock,           \* the block passed to the scanner
    scanContracts,       \* monitorConfig.baseContracts
    scanSource,          \* monitorConfig.l2Source
    scanPc,              \* "idle", "ready", "scanned"
    scanJobs             \* the jobs the call returned

\* one blob fetcher (createBlobFetcher) and the fetchBlobsForJob call in progress
VARIABLES
    fetcherConfig,       \* fetcherConfig: retryCount
    fetchJob,            \* the job passed to fetchBlobsForJob
    fetchPc,             \* "idle", "getBlock", "request", "sleep", "done"
    chainBlock,          \* what viemClient.getBlock returned: << >> or <<block>>
    slotNumber,          \* slotNumber, NoBlock while not calculated
    attempt,             \* attempt
    beaconApiResponse,   \* beaconApiResponse: << >> (null) or <<response>>
    lastError,           \* lastError: "none" (null) or what the last failed attempt threw
    lastReply,           \* how the latest REST request ended: << >> or <<reply>>
    requests,            \* the slots of the REST requests issued, in order
    sleeps,              \* number of retry delays waited or being waited
    fetchResult,         \* how the call settled
    fetches,             \* number of fetchBlobsForJob calls started
    slotLog              \* <<timestamp, slot>> of the slots calculated so far

\* one fetcher worker (createBlobFetcherWorker) and the two Redis lists it uses;
\* a list has its head at the left: LPUSH adds at the front, BRPOP takes the last
VARIABLES
    blobFetchQueue,      \* the list BLOB_FETCH_QUEUE_KEY
    blobArchiveQueue,    \* the list BLOB_ARCHIVE_QUEUE_KEY
    isShuttingDown,      \* isShuttingDown
    workPc,              \* "created", "brpop", "fetch", "lpush", "backoff", "exited"
    jobString,           \* the payload processJob is working on: << >> or <<payload>>
    jobLog,              \* what processJob logged when it returned, per payload, in order
    pushed,              \* number of payloads pushed to the fetch list so far
    stoppedAt            \* where work was when stop() was called: << >> or <<[pc, job]>>

\* the list blob_fetch_jobs_queue between handleBlobFound and processJob
VARIABLES
    fetchList,           \* the texts in the list, newest first
    enqueueLog,          \* per handleBlobFound call: the job, and whether it is in the list
    parsed               \* the values JSON.parse returned in processJob, in order

\* one call of archiveBlobData (createBlobArchiver)
VARIABLES
    archiveJob,          \* jobData: expectedBlobVersionedHashes, fetchedBlobs
    archivePc,           \* "idle", "client", "container", "upload", "done"
    blobAt,              \* index in fetchedBlobs of the blob being uploaded
    blobArchivalDetails, \* blobArchivalDetails
    overallSuccess,      \* overallSuccess
    uploads,             \* per upload attempt, in order: [at, outcome]
    archivalResult       \* what the call returned: << >> or <<result>>

monitorVars == <<config, heads, persisted, lastProcessedBlock, aborted, pc, latestBlock,
                 fromBlock, toBlock, currentBlock, batchEnd, tasks, scanned, emitted,
                 fetchQueue, iter, faults, shutdownPc, cursorBefore, persistedBefore,
                 outcome, prevFailedFrom, cancelTo>>
scannerVars == <<scanBlock, scanContracts, scanSource, scanPc, scanJobs>>

fetcherVars == <<fetcherConfig, fetchJob, fetchPc, chainBlock, slotNumber, attempt,
                 beaconApiResponse, lastError, lastReply, requests, sleeps, fetchResult,
                 fetches, slotLog>>

workerVars == <<blobFetchQueue, blobArchiveQueue, isShuttingDown, workPc, jobString, jobLog,
                pushed, stoppedAt>>

queueVars == <<fetchList, enqueueLog, parsed>>

archiverVars == <<archiveJob, archivePc, blobAt, blobArchivalDetails, overallSuccess, uploads,
                  archivalResult>>

vars == <<monitorVars, scannerVars, fetcherVars, workerVars, queueVars, archiverVars>>

loopVars == <<latestBlock, fromBlock, toBlock, currentBlock, batchEnd>>
histVars == <<cursorBefore, persistedBefore, outcome, prevFailedFrom>>

SleepStates == {"sleepIdle", "sleepErr"}

(***************************************************************************)
(* monitor.ts: createMonitorState                                          *)
(***************************************************************************)
\* headResult = NoBlock: client.getBlockNumber() threw
createMonitorState(stored, blocksFromHead, headResult) ==
    IF stored = 0 /\ blocksFromHead > 0
    THEN IF headResult = NoBlock THEN 0
         ELSE Max(headResult - blocksFromHead, 0)
    ELSE stored

\* the state startMonitor begins in, but for the environment's budget
Started ==
    /\ config \in [confirmations : ConfirmationsSet, batchSize : BatchSizes]
    /\ persisted \in PersistedStarts
    /\ \E h \in Heads \cup {NoBlock}, bfh \in BlocksFromHeadSet :
          lastProcessedBlock = createMonitorState(persisted, bfh, h)
    /\ aborted = FALSE
    /\ pc = "head"
    /\ latestBlock = NoBlock /\ fromBlock = NoBlock /\ toBlock = NoBlock
    /\ currentBlock = NoBlock /\ batchEnd = NoBlock
    /\ tasks = {} /\ scanned = {} /\ emitted = << >> /\ fetchQueue = << >>
    /\ shutdownPc = "running"
    /\ cursorBefore = lastProcessedBlock /\ persistedBefore = persisted
    /\ outcome = "none" /\ prevFailedFrom = NoBlock /\ cancelTo = NoBlock

\* no scanner call is being observed
ScannerIdle ==
    /\ scanBlock = Null /\ scanContracts = << >> /\ scanSource = l2Source
    /\ scanPc = "idle" /\ scanJobs = << >>

\* the "pending" and the settled values of fetchResult
Pending == [kind |-> "pending"]
Rejected == [kind |-> "rejected"]
Err(error) == [kind |-> "Err", error |-> error]
Ok(value) == [kind |-> "Ok", value |-> value]

\* no fetcher call is being observed
FetcherIdle ==
    /\ fetcherConfig = [retryCount |-> DefaultRetryCount]
    /\ fetchJob = << >> /\ fetchPc = "idle" /\ chainBlock = << >>
    /\ slotNumber = NoBlock /\ attempt = 0 /\ beaconApiResponse = Null
    /\ lastError = "none" /\ lastReply = << >> /\ requests = << >> /\ sleeps = 0
    /\ fetchResult = Pending /\ fetches = 0 /\ slotLog = {}

\* the worker is created and not started, both lists are empty
WorkerIdle ==
    /\ blobFetchQueue = << >> /\ blobArchiveQueue = << >>
    /\ isShuttingDown = FALSE /\ workPc = "created"
    /\ jobString = << >> /\ jobLog = << >> /\ pushed = 0
    /\ stoppedAt = << >>

\* nothing has been written to or read from the list
QueueIdle == fetchList = << >> /\ enqueueLog = << >> /\ parsed = << >>

\* archiveBlobData has not been called
ArchiverIdle ==
    /\ archiveJob = << >> /\ archivePc = "idle" /\ blobAt = 0
    /\ blobArchivalDetails = << >> /\ overallSuccess = TRUE
    /\ uploads = << >> /\ archivalResult = << >>

Init ==
    /\ Started
    /\ heads = Heads
    /\ iter = 0 /\ faults = 0
    /\ ScannerIdle /\ FetcherIdle /\ WorkerIdle /\ QueueIdle /\ ArchiverIdle

\* a first run against a chain more than a window long: the cursor store has
\* no row and blocksFromHead is not set; the chain client answers two head
\* queries and at most one upstream call fails
InitWindow ==
    /\ Started
    /\ persisted = 0 /\ lastProcessedBlock = 0
    /\ heads = FarHeads
    /\ iter = MaxIter - 2 /\ faults = MaxFaults - 1
    /\ ScannerIdle /\ FetcherIdle /\ WorkerIdle /\ QueueIdle /\ ArchiverIdle

(***************************************************************************)
(* monitor.ts: the pure parts of monitorLoop and processBlockRange         *)
(***************************************************************************)
\* line 142: config.confirmations || 3
confirmationsOf(cfg) == IF cfg.confirmations = 0 THEN DefaultConfirmations ELSE cfg.confirmations
\* line 81: config.batchSize || 10
batchSizeOf(cfg) == IF cfg.batchSize = 0 THEN DefaultBatchSize ELSE cfg.batchSize
\* line 142
targetBlockOf(latest, cfg) == latest - confirmationsOf(cfg)
\* mutant of hasWork: the guard compares with # instead of <
hasWorkUnequal(cursor, target) == cursor # target
\* line 144
hasWork(cursor, target) == cursor < target
\* line 145
fromBlockOf(cursor) == cursor + 1
\* mutant of toBlockOf: the window is one block too wide
toBlockOfWide(from, target) ==
    LET maxBlocks == from + WindowSpan + 1
    IN IF maxBlocks < target THEN maxBlocks ELSE target
\* lines 146-147
toBlockOf(from, target) ==
    LET maxBlocks == from + WindowSpan
    IN IF maxBlocks < target THEN maxBlocks ELSE target
\* mutant of batchEndOf: the end of the sub-batch is not cut at toBlock
batchEndOfUncut(current, to, cfg) == current + (batchSizeOf(cfg) - 1)
\* lines 86-87
batchEndOf(current, to, cfg) ==
    LET endBlock == current + (batchSizeOf(cfg) - 1)
    IN IF endBlock > to THEN to ELSE endBlock
\* lines 92-97: one processBlockNumber call per block of the sub-batch
blockPromises(current, end, it) ==
    {[block |-> b, iter |-> it, stage |-> 0] : b \in current..end}
\* mutant of allSettled: the join does not wait for the pending promises
allSettledEarly(pending) == TRUE
\* line 100: Promise.all resolves when no promise of the sub-batch is pending
allSettled(pending) == pending = {}
\* mutant of moreJobs: the for loop stops after the first job
moreJobsNever(stage, jobs) == FALSE
\* lines 65-67: the for loop over the jobs goes on after the job at index stage
moreJobs(stage, jobs) == stage < Len(jobs)
\* mutant of cursorAt: the cursor follows every resolved sub-batch
cursorAtEager(cursor, next, to) == next - 1
\* lines 85, 114, 159: the in-memory cursor when processBlockRange is at the
\* top of its while loop with currentBlock = next
cursorAt(cursor, next, to) == IF next > to THEN to ELSE cursor
\* mutant of loopTop: the loop ends when its first sleep is over
loopTopOnce(isAborted) == "done"
\* line 139 / 170: what the loop does when a sleep ends or is skipped
loopTop(isAborted) == IF isAborted THEN "done" ELSE "head"
\* mutant of catchBlock: no error backoff
catchBlockNoBackoff(isAborted) == loopTop(isAborted)
\* lines 169-174: the catch block
catchBlock(isAborted) == IF isAborted THEN loopTop(isAborted) ELSE "sleepErr"

Alive == shutdownPc # "exited"
RedisOpen == shutdownPc \in {"running", "stopping"}
DbOpen == shutdownPc \in {"running", "stopping", "redisQuit"}
IsCurrent(t) == pc = "range" /\ t.iter = iter
CurrentTasks(ts) == {t \in ts : t.iter = iter}

(***************************************************************************)
(* monitorLoop, lines 141-168: the head query returns h                    *)
(***************************************************************************)
\* processBlockRange at the top of its while loop (lines 85-97, 111-114) with
\* currentBlock = next and the tasks rest in flight; on exit monitorLoop sets
\* the cursor and calls updateLastProcessedBlock (lines 159-160)
whileLoop(next, to, rest, it) ==
    /\ currentBlock' = next
    /\ lastProcessedBlock' = cursorAt(lastProcessedBlock, next, to)
    /\ IF next <= to
       THEN LET end == batchEndOf(next, to, config)
            IN /\ batchEnd' = end
               /\ tasks' = rest \cup blockPromises(next, end, it)
               /\ pc' = "range"
       ELSE /\ pc' = "persist"
            /\ tasks' = rest
            /\ UNCHANGED batchEnd

HeadOk(h) ==
    /\ Alive /\ pc = "head" /\ iter < MaxIter
    /\ LET target == targetBlockOf(h, config)
           from == fromBlockOf(lastProcessedBlock)
           to == toBlockOf(from, target)
       IN /\ iter' = iter + 1
          /\ latestBlock' = h
          /\ cursorBefore' = lastProcessedBlock
          /\ persistedBefore' = persisted
          /\ prevFailedFrom' = IF outcome = "rangeFailed" THEN fromBlock ELSE NoBlock
          /\ IF hasWork(lastProcessedBlock, target)
             THEN /\ fromBlock' = from /\ toBlock' = to
                  /\ scanned' = {}
                  /\ outcome' = "running"
                  /\ whileLoop(from, to, tasks, iter + 1)
             ELSE /\ outcome' = "idle"
                  /\ pc' = "sleepIdle"
                  /\ UNCHANGED <<fromBlock, toBlock, currentBlock, batchEnd, tasks,
                                 scanned, lastProcessedBlock>>
    /\ UNCHANGED <<archiverVars, queueVars, scannerVars, fetcherVars, workerVars, config, heads, persisted, aborted, emitted,
                   fetchQueue, faults, shutdownPc, cancelTo>>

\* the head query throws: lines 169-174
HeadFail ==
    /\ Alive /\ pc = "head" /\ faults < MaxFaults
    /\ faults' = faults + 1
    /\ outcome' = "headFailed"
    /\ pc' = catchBlock(aborted)
    /\ UNCHANGED <<archiverVars, queueVars, scannerVars, fetcherVars, workerVars, config, heads, persisted, lastProcessedBlock, aborted, loopVars,
                   tasks, scanned, emitted, fetchQueue, iter, shutdownPc,
                   cursorBefore, persistedBefore, prevFailedFrom, cancelTo>>

(***************************************************************************)
(* processBlockRange, lines 100-114, and monitorLoop, lines 159-160:       *)
(* what follows the resolution of the task t, the other tasks being rest   *)
(***************************************************************************)
Resolved(t, rest) ==
    IF ~IsCurrent(t)
    THEN /\ tasks' = rest
         /\ UNCHANGED <<pc, scanned, currentBlock, batchEnd, lastProcessedBlock>>
    ELSE /\ scanned' = scanned \cup {t.block}
         /\ IF allSettled(CurrentTasks(rest))
            THEN whileLoop(batchEnd + 1, toBlock, rest, iter)
            ELSE /\ tasks' = rest
                 /\ UNCHANGED <<pc, currentBlock, batchEnd, lastProcessedBlock>>

(***************************************************************************)
(* processBlockNumber, lines 54-67                                         *)
(***************************************************************************)
\* mutant of handOver: a job that a task of an earlier iteration handed over
\* is not handed over again
handOverSeen(log, t, job) ==
    LET k == <<t.iter, t.block>>
        seen == \E j \in DOMAIN log :
                    j[1] < t.iter /\ \E i \in DOMAIN log[j] : log[j][i] = job
    IN IF k \in DOMAIN log THEN [log EXCEPT ![k] = IF seen THEN @ ELSE Append(@, job)]
       ELSE (k :> IF seen THEN << >> ELSE <<job>>) @@ log

\* mutant of handOver: the log of a task grows at the front
handOverFirst(log, t, job) ==
    LET k == <<t.iter, t.block>>
    IN IF k \in DOMAIN log THEN [log EXCEPT ![k] = <<job>> \o @]
       ELSE (k :> <<job>>) @@ log

\* line 66: onBlobFound(job) is called by the task t
handOver(log, t, job) ==
    LET k == <<t.iter, t.block>>
    IN IF k \in DOMAIN log THEN [log EXCEPT ![k] = Append(@, job)]
       ELSE (k :> <<job>>) @@ log

\* getBlock returns; the block is scanned and its first job handed over
GetBlockOk(t) ==
    /\ Alive /\ t \in tasks /\ t.stage = 0
    /\ LET jobs == JobsOf(t.block)
       IN IF Len(jobs) = 0
          THEN /\ Resolved(t, tasks \ {t})
               /\ UNCHANGED emitted
          ELSE /\ emitted' = handOver(emitted, t, jobs[1])
               /\ tasks' = (tasks \ {t}) \cup {[t EXCEPT !.stage = 1]}
               /\ UNCHANGED <<pc, scanned, currentBlock, batchEnd, lastProcessedBlock>>
    /\ UNCHANGED <<archiverVars, queueVars, scannerVars, fetcherVars, workerVars, config, heads, persisted, aborted, latestBlock, fromBlock, toBlock,
                   fetchQueue, iter, faults, shutdownPc, histVars, cancelTo>>

\* getBlock throws: lines 68-71, 106-109, 169-174
GetBlockFail(t) ==
    /\ Alive /\ t \in tasks /\ t.stage = 0 /\ faults < MaxFaults
    /\ faults' = faults + 1
    /\ tasks' = tasks \ {t}
    /\ IF IsCurrent(t)
       THEN /\ outcome' = "rangeFailed"
            /\ pc' = catchBlock(aborted)
       ELSE UNCHANGED <<outcome, pc>>
    /\ UNCHANGED <<archiverVars, queueVars, scannerVars, fetcherVars, workerVars, config, heads, persisted, lastProcessedBlock, aborted, loopVars,
                   scanned, emitted, fetchQueue, iter, shutdownPc, cursorBefore,
                   persistedBefore, prevFailedFrom, cancelTo>>

\* part_002 lines 79-87: the list after handleBlobFound(job); JSON.stringify
\* has no replacer, and when it throws lpush is not called; ok: lpush resolves
handleBlobFound(queue, job, ok) ==
    LET text == JSONstringify(ProcessingJob(job), "none")
    IN IF text # << >> /\ ok THEN text \o queue ELSE queue

\* handleBlobFound, called for the job handed over last, returns
CallbackReturn(t, ok) ==
    /\ Alive /\ t \in tasks /\ t.stage >= 1
    /\ IF ok THEN RedisOpen /\ UNCHANGED faults
       ELSE \/ ~RedisOpen /\ UNCHANGED faults
            \/ RedisOpen /\ faults < MaxFaults /\ faults' = faults + 1
    /\ LET jobs == JobsOf(t.block)
       IN /\ fetchQueue' = handleBlobFound(fetchQueue, jobs[t.stage], ok)
          /\ IF moreJobs(t.stage, jobs)
             THEN /\ emitted' = handOver(emitted, t, jobs[t.stage + 1])
                  /\ tasks' = (tasks \ {t}) \cup {[t EXCEPT !.stage = t.stage + 1]}
                  /\ UNCHANGED <<pc, scanned, currentBlock, batchEnd, lastProcessedBlock>>
             ELSE /\ Resolved(t, tasks \ {t})
                  /\ UNCHANGED emitted
    /\ UNCHANGED <<archiverVars, queueVars, scannerVars, fetcherVars, workerVars, config, heads, persisted, aborted, latestBlock, fromBlock, toBlock,
                   iter, shutdownPc, histVars, cancelTo>>

(***************************************************************************)
(* monitor-state repository: updateLastProcessedBlock, and lines 160-168   *)
(***************************************************************************)
updateLastProcessedBlock(stored, blockNumber) == blockNumber

PersistOk ==
    /\ Alive /\ pc = "persist" /\ DbOpen
    /\ persisted' = updateLastProcessedBlock(persisted, lastProcessedBlock)
    /\ outcome' = "ok"
    /\ pc' = "sleepIdle"
    /\ UNCHANGED <<archiverVars, queueVars, scannerVars, fetcherVars, workerVars, config, heads, lastProcessedBlock, aborted, loopVars, tasks, scanned,
                   emitted, fetchQueue, iter, faults, shutdownPc, cursorBefore,
                   persistedBefore, prevFailedFrom, cancelTo>>

PersistFail ==
    /\ Alive /\ pc = "persist"
    /\ \/ ~DbOpen /\ UNCHANGED faults
       \/ DbOpen /\ faults < MaxFaults /\ faults' = faults + 1
    /\ outcome' = "writeFailed"
    /\ pc' = catchBlock(aborted)
    /\ UNCHANGED <<archiverVars, queueVars, scannerVars, fetcherVars, workerVars, config, heads, persisted, lastProcessedBlock, aborted, loopVars, tasks,
                   scanned, emitted, fetchQueue, iter, shutdownPc, cursorBefore,
                   persistedBefore, prevFailedFrom, cancelTo>>

(***************************************************************************)
(* sleep, lines 117-124                                                    *)
(***************************************************************************)
\* the timer of the pending sleep fires
TimerFires ==
    /\ Alive /\ pc \in SleepStates
    /\ pc' = loopTop(aborted)
    /\ UNCHANGED <<archiverVars, queueVars, scannerVars, fetcherVars, workerVars, config, heads, persisted, lastProcessedBlock, aborted, loopVars, tasks,
                   scanned, emitted, fetchQueue, iter, faults, shutdownPc,
                   histVars, cancelTo>>

\* the abort listener of a pending sleep: clearTimeout and resolve
abortListener(at) == IF at \in SleepStates THEN loopTop(TRUE) ELSE at

(***************************************************************************)
(* entry point: shutdown (SIGINT / SIGTERM)                                *)
(***************************************************************************)
\* stopMonitor(): abortController.abort()
ShutdownStop ==
    /\ shutdownPc = "running"
    /\ shutdownPc' = "stopping"
    /\ aborted' = TRUE
    /\ pc' = abortListener(pc)
    /\ cancelTo' = IF pc = "range" THEN toBlock ELSE NoBlock
    /\ UNCHANGED <<archiverVars, queueVars, scannerVars, fetcherVars, workerVars, config, heads, persisted, lastProcessedBlock, loopVars, tasks, scanned,
                   emitted, fetchQueue, iter, faults, histVars>>

\* the workers have stopped; redisClient.quit()
ShutdownQuitRedis ==
    /\ shutdownPc = "stopping"
    /\ shutdownPc' = "redisQuit"
    /\ UNCHANGED <<archiverVars, queueVars, scannerVars, fetcherVars, workerVars, config, heads, persisted, lastProcessedBlock, aborted, pc, loopVars,
                   tasks, scanned, emitted, fetchQueue, iter, faults, histVars, cancelTo>>

\* db.close()
ShutdownCloseDb ==
    /\ shutdownPc = "redisQuit"
    /\ shutdownPc' = "dbClosed"
    /\ UNCHANGED <<archiverVars, queueVars, scannerVars, fetcherVars, workerVars, config, heads, persisted, lastProcessedBlock, aborted, pc, loopVars,
                   tasks, scanned, emitted, fetchQueue, iter, faults, histVars, cancelTo>>

\* process.exit(0)
ShutdownExit ==
    /\ shutdownPc = "dbClosed"
    /\ shutdownPc' = "exited"
    /\ UNCHANGED <<archiverVars, queueVars, scannerVars, fetcherVars, workerVars, config, heads, persisted, lastProcessedBlock, aborted, pc, loopVars,
                   tasks, scanned, emitted, fetchQueue, iter, faults, histVars, cancelTo>>

Next ==
    \/ \E h \in heads : HeadOk(h)
    \/ HeadFail
    \/ \E t \in tasks : GetBlockOk(t)
    \/ \E t \in tasks : GetBlockFail(t)
    \/ \E t \in tasks : \E ok \in BOOLEAN : CallbackReturn(t, ok)
    \/ PersistOk
    \/ PersistFail
    \/ TimerFires
    \/ ShutdownStop
    \/ ShutdownQuitRedis
    \/ ShutdownCloseDb
    \/ ShutdownExit

Spec == Init /\ [][Next]_vars

SpecWindow == InitWindow /\ [][Next]_vars

(***************************************************************************)
(* Properties of the scan loop.                                            *)
(***************************************************************************)
EmittedBy(it, b) == IF <<it, b>> \in DOMAIN emitted THEN emitted[<<it, b>>] ELSE << >>
RangeOutcomes == {"running", "ok", "rangeFailed", "writeFailed"}

\* C1: across every step of the loop (idle, successful range, failed range,
\* failed cursor write, head moving backwards) neither the in-memory cursor
\* nor the value in the cursor store decreases.
C1_CursorMonotonic ==
    [][/\ lastProcessedBlock' >= lastProcessedBlock
       /\ persisted' >= persisted]_vars

\* the cursor was advanced and written, and a later iteration saw a head
\* whose target lies behind the cursor
C1_Witness ==
    /\ iter >= 2 /\ outcome = "idle"
    /\ persisted > 4
    /\ persisted = lastProcessedBlock
    /\ targetBlockOf(latestBlock, config) < lastProcessedBlock

\* C2: when a block of the range fails, both cursors equal their values
\* before the iteration, also when earlier sub-batches of the range resolved.
C2_NoPartialAdvance ==
    outcome = "rangeFailed" =>
        /\ lastProcessedBlock = cursorBefore
        /\ persisted = persistedBefore

\* a range failed in a later sub-batch, after an earlier one had resolved
C2_Witness ==
    /\ outcome = "rangeFailed"
    /\ currentBlock > fromBlock
    /\ scanned # {}

\* C3: a step that advances the in-memory cursor sets it to the to of the
\* current range, that range starts right after the old cursor, and every
\* block of it was fetched and scanned, with its jobs handed over, by a task
\* of this iteration; the value written to the store is that to.
C3_AdvanceCoversRange ==
    [][/\ lastProcessedBlock' # lastProcessedBlock =>
            /\ lastProcessedBlock' = toBlock
            /\ fromBlock = lastProcessedBlock + 1
            /\ \A b \in fromBlock..toBlock :
                  b \in scanned' /\ EmittedBy(iter, b) = JobsOf(b)
       /\ persisted' # persisted => persisted' = toBlock]_vars

\* the cursor was advanced over a range of several sub-batches
C3_Witness ==
    /\ pc = "persist"
    /\ lastProcessedBlock = toBlock
    /\ toBlock - fromBlock + 1 > batchSizeOf(config)

\* C4 as claimed: after a failed cursor write the in-memory cursor equals the
\* cursor before the iteration, so it is not ahead of the stored one.
C4_Claim ==
    outcome = "writeFailed" => lastProcessedBlock = cursorBefore

\* C5 as claimed: a job of the range is emitted only once the whole range has
\* been fetched and scanned, and a failed range has emitted no job.
C5_Claim ==
    \A b \in fromBlock..toBlock :
        EmittedBy(iter, b) # << >> =>
            /\ outcome # "rangeFailed"
            /\ \A c \in fromBlock..toBlock :
                  c \in scanned \/ \E t \in tasks : t.iter = iter /\ t.block = c /\ t.stage >= 1

\* C5 amended: a task emits the jobs of its block as soon as that block is
\* fetched and scanned, so jobs may be out before the range fails; the cursor
\* is set, and written, only after every job of every block of the range has
\* been handed over by this iteration's tasks.
C5_CursorAfterJobs ==
    (lastProcessedBlock # cursorBefore \/ persisted # persistedBefore) =>
        \A b \in fromBlock..toBlock : EmittedBy(iter, b) = JobsOf(b)

\* the cursor was written after a range holding a block with two jobs
C5_Witness ==
    /\ outcome = "ok"
    /\ persisted = toBlock
    /\ \E b \in fromBlock..toBlock : Len(JobsOf(b)) >= 2 /\ EmittedBy(iter, b) = JobsOf(b)

\* C6: target = head - confirmations; with cursor >= target nothing is
\* fetched and the cursor stays; otherwise from = cursor + 1 and
\* to = min(from + 99, target), so from <= to <= head - confirmations and the
\* range holds at most 100 blocks whatever batchSize is; no task of the
\* iteration fetches a block above head - confirmations.
C6_RangeShape ==
    LET target == latestBlock - config.confirmations
    IN /\ outcome = "idle" =>
            /\ cursorBefore >= target
            /\ lastProcessedBlock = cursorBefore
            /\ \A t \in tasks : t.iter # iter
       /\ outcome \in RangeOutcomes =>
            /\ cursorBefore < target
            /\ fromBlock = cursorBefore + 1
            /\ toBlock = Min(fromBlock + 99, target)
            /\ fromBlock <= toBlock /\ toBlock <= target
            /\ toBlock - fromBlock + 1 <= 100
       /\ iter >= 1 =>
            \A t \in tasks : t.iter = iter =>
                t.block <= target /\ fromBlock <= t.block /\ t.block <= toBlock

\* an iteration processed a full window of 100 blocks, cut short of its
\* target, and the next one found its target behind the cursor and fetched
\* nothing
C6_Witness ==
    /\ outcome = "idle" /\ pc = "sleepIdle"
    /\ toBlock - fromBlock + 1 = 100
    /\ lastProcessedBlock = toBlock /\ persisted = toBlock
    /\ lastProcessedBlock > latestBlock - config.confirmations
    /\ batchSizeOf(config) > 1

\* C7: the step in which a range fails leaves both cursors alone and never
\* enters the idle sleep; it enters the error backoff sleep, unless stop was
\* already requested, in which case the loop exits; and the range of the
\* next iteration starts at the from of the failed one.
C7_FailureBacksOff ==
    [][/\ (outcome' = "rangeFailed" /\ outcome # "rangeFailed") =>
            /\ lastProcessedBlock' = lastProcessedBlock
            /\ persisted' = persisted
            /\ pc' = IF aborted THEN "done" ELSE "sleepErr"
       /\ (outcome = "rangeFailed" /\ pc = "head" /\ pc' = "range") =>
            fromBlock' = fromBlock]_vars

\* a range failed and the next iteration has started its range
C7_Witness ==
    /\ prevFailedFrom # NoBlock
    /\ pc = "range"
    /\ fromBlock = prevFailedFrom

\* C8 as claimed: when stop is requested while a range is in flight and no
\* upstream call fails, the loop does not end before the cursor is set to the
\* to of that range and written.
C8_Claim ==
    (cancelTo # NoBlock /\ faults = 0 /\ (pc = "done" \/ shutdownPc = "exited")) =>
        /\ lastProcessedBlock = cancelTo
        /\ persisted = cancelTo

\* C9 as claimed: a sleep never outlasts a stop request, whenever the request
\* was made: the loop is never waiting for a sleep timer with the signal aborted.
C9_Claim ==
    ~(aborted /\ pc \in SleepStates)

\* C10 as claimed: at most batchSize per-block tasks are in flight.
C10_Claim ==
    Cardinality(tasks) <= batchSizeOf(config)

(***************************************************************************)
(* Properties of the job hand-over.                                        *)
(***************************************************************************)
\* position of the transaction with the given hash in the block b
TxIndex(b, txHash) ==
    CHOOSE i \in DOMAIN Chain(b).transactions : Chain(b).transactions[i].hash = txHash

\* C11: the jobs a task has handed to the callback for its block are in the
\* order of their transactions in the block, each transaction at most once,
\* whatever the other tasks of the sub-batch have done in between.
C11_PerBlockOrder ==
    \A k \in DOMAIN emitted :
        \A i, j \in DOMAIN emitted[k] :
            i < j => TxIndex(k[2], emitted[k][i].txHash) < TxIndex(k[2], emitted[k][j].txHash)

\* two tasks of one sub-batch are in flight: the one has handed over both jobs
\* of its block, the other the job of its block
C11_Witness ==
    \E t, u \in tasks :
        /\ IsCurrent(t) /\ IsCurrent(u)
        /\ t.block # u.block
        /\ t.block >= currentBlock /\ u.block >= currentBlock
        /\ t.stage = 2 /\ u.stage = 1
        /\ Len(EmittedBy(iter, t.block)) = 2
        /\ Len(EmittedBy(iter, u.block)) = 1

\* C14: scanning is deterministic and idempotent.  A block that two
\* iterations scan, as the retry of a failed range does, yields the same jobs
\* in the same order both times: of the two lists handed over one continues
\* the other as long as a task of either scan is running, and the two are the
\* same list once both tasks have returned.
C14_RescanReproduces ==
    \A k, l \in DOMAIN emitted :
        (k[2] = l[2] /\ k[1] < l[1]) =>
            LET first == emitted[k]
                again == emitted[l]
                n == Min(Len(first), Len(again))
                running == \E t \in tasks : <<t.iter, t.block>> \in {k, l}
            IN /\ SubSeq(first, 1, n) = SubSeq(again, 1, n)
               /\ ~running => first = again

\* a range failed after a block of two jobs had handed both over; the retry
\* scanned the block again, handed the same two jobs over and succeeded
C14_Witness ==
    /\ outcome = "ok" /\ prevFailedFrom = fromBlock
    /\ tasks = {}
    /\ \E b \in fromBlock..toBlock :
          /\ Len(EmittedBy(iter, b)) = 2
          /\ EmittedBy(iter - 1, b) = EmittedBy(iter, b)

(***************************************************************************)
(* The block scanner on its own: createProcessingJobsForBlock is applied   *)
(* to blocks and allow-lists drawn from bounded sets.                      *)
(***************************************************************************)
TxNames == <<"t1", "t2", "t3", "t4">>
ScanTypes == {"eip4844", "eip1559"}
ScanTos == {Null, <<"A", "b">>, <<"c", "c">>}
ScanHashLists == {<< >>, <<"v1">>, <<"v2", "v1">>}
TxShapes == [type : ScanTypes, to : ScanTos, hashes : ScanHashLists]
\* the transaction lists of up to MaxTxs transactions
TxLists ==
    UNION {{[i \in 1..n |-> Tx(TxNames[i], f[i].type, f[i].to, f[i].hashes)] :
               f \in [1..n -> TxShapes]} : n \in 0..MaxTxs}
\* blocks as the chain client returns them: number and hash may be null
\* (pending block), and the transactions may be hash references only
ScanBlocks ==
    {[number |-> n, hash |-> h, timestamp |-> 1084, hydrated |-> hy, transactions |-> txs] :
        n \in {NoBlock, 7}, h \in {Null, <<"h", 7>>}, hy \in BOOLEAN, txs \in TxLists}
ScanAllowLists == {<< >>, << <<"a", "B">> >>, << <<"c", "d">>, <<"A", "B">> >>}
ScanSources == {"base", "optimism"}

\* the monitor is not running
MonitorIdle ==
    /\ config = [confirmations |-> DefaultConfirmations, batchSize |-> DefaultBatchSize]
    /\ heads = {} /\ persisted = 0 /\ lastProcessedBlock = 0
    /\ aborted = FALSE /\ pc = "done"
    /\ latestBlock = NoBlock /\ fromBlock = NoBlock /\ toBlock = NoBlock
    /\ currentBlock = NoBlock /\ batchEnd = NoBlock
    /\ tasks = {} /\ scanned = {} /\ emitted = << >> /\ fetchQueue = << >>
    /\ iter = 0 /\ faults = 0 /\ shutdownPc = "running"
    /\ cursorBefore = 0 /\ persistedBefore = 0
    /\ outcome = "none" /\ prevFailedFrom = NoBlock /\ cancelTo = NoBlock

InitScanner ==
    /\ MonitorIdle /\ FetcherIdle /\ WorkerIdle /\ QueueIdle /\ ArchiverIdle
    /\ scanBlock \in ScanBlocks
    /\ scanContracts \in ScanAllowLists
    /\ scanSource \in ScanSources
    /\ scanPc = "ready" /\ scanJobs = << >>

\* monitor.ts line 60: the block is scanned
Scan ==
    /\ scanPc = "ready"
    /\ scanJobs' = createProcessingJobsForBlock(scanBlock, scanContracts, scanSource)
    /\ scanPc' = "scanned"
    /\ UNCHANGED <<archiverVars, queueVars, monitorVars, fetcherVars, workerVars, scanBlock, scanContracts, scanSource>>

NextScanner == Scan

SpecScanner == InitScanner /\ [][NextScanner]_vars

(***************************************************************************)
(* Properties of the block scanner.                                        *)
(***************************************************************************)
ScanDone == scanPc = "scanned"
\* the block has a number and a hash, and its transactions are full bodies
Scannable(block) == block.number # NoBlock /\ block.hash # Null /\ block.hydrated
\* the destination equals an entry of the allow-list, letter case ignored
OnAllowList(to, contracts) ==
    to # Null /\ \E i \in DOMAIN contracts : toLowerCase(contracts[i]) = toLowerCase(to)
\* the job of the list that stems from the transaction tx, if any
HasJob(jobs, tx) == \E k \in DOMAIN jobs : jobs[k].txHash = tx.hash
\* position in the block of the transaction a job stems from
ScanTxIndex(job) ==
    CHOOSE i \in DOMAIN scanBlock.transactions : scanBlock.transactions[i].hash = job.txHash
\* the jobs are in the order of their transactions, one per transaction
InBlockOrder(jobs) ==
    \A k, l \in DOMAIN jobs : k < l => ScanTxIndex(jobs[k]) < ScanTxIndex(jobs[l])

\* C12 as claimed: a transaction of a hydrated block yields a job if and only
\* if it carries one or more blob versioned hashes and its destination is
\* non-null and on the allow-list, letter case ignored; the jobs are in
\* transaction order.
C12_Claim ==
    (ScanDone /\ Scannable(scanBlock)) =>
        /\ \A i \in DOMAIN scanBlock.transactions :
              LET tx == scanBlock.transactions[i]
              IN HasJob(scanJobs, tx) <=>
                    /\ Len(tx.blobVersionedHashes) >= 1
                    /\ OnAllowList(tx.to, scanContracts)
        /\ InBlockOrder(scanJobs)

\* C12 amended: a transaction of a hydrated block yields a job if and only if
\* it is of type eip4844, carries one or more blob versioned hashes and its
\* destination is non-null and on the allow-list, letter case ignored; the
\* jobs are in transaction order, and there is none when no transaction
\* qualifies.
C12_JobIffQualifies ==
    (ScanDone /\ Scannable(scanBlock)) =>
        /\ \A i \in DOMAIN scanBlock.transactions :
              LET tx == scanBlock.transactions[i]
              IN HasJob(scanJobs, tx) <=>
                    /\ tx.type = "eip4844"
                    /\ Len(tx.blobVersionedHashes) >= 1
                    /\ OnAllowList(tx.to, scanContracts)
        /\ InBlockOrder(scanJobs)
        /\ Len(scanJobs) <= Len(scanBlock.transactions)

\* a block was scanned whose second transaction qualifies with a destination
\* written in another letter case than the allow-list entry, and whose first
\* does not qualify
C12_Witness ==
    /\ ScanDone /\ Scannable(scanBlock)
    /\ Len(scanBlock.transactions) = 2
    /\ Len(scanJobs) = 1
    /\ scanJobs[1].txHash = scanBlock.transactions[2].hash
    /\ scanBlock.transactions[2].to \notin {scanContracts[i] : i \in DOMAIN scanContracts}
    /\ Len(scanBlock.transactions[1].blobVersionedHashes) >= 1

\* C13: a scan of a block whose number or hash is null, or whose
\* transactions are hash references only, completes with the empty list.
C13_UnresolvedYieldsNothing ==
    (ScanDone /\ ~Scannable(scanBlock)) => scanJobs = << >>

\* a block with number and hash whose transactions are hash references only
\* was scanned; one of them goes to an allow-listed contract with blob hashes
C13_Witness ==
    /\ ScanDone
    /\ scanBlock.number # NoBlock /\ scanBlock.hash # Null /\ ~scanBlock.hydrated
    /\ \E i \in DOMAIN scanBlock.transactions :
          LET tx == scanBlock.transactions[i]
          IN /\ tx.type = "eip4844"
             /\ Len(tx.blobVersionedHashes) >= 1
             /\ OnAllowList(tx.to, scanContracts)
    /\ scanJobs = << >>

\* C15 as claimed: every job carries its transaction's hash, source and
\* destination address, the block's number, hash and timestamp, the L2 source
\* label and the blob versioned hashes in their order, which are not empty.
C15_Claim ==
    ScanDone =>
        \A k \in DOMAIN scanJobs :
            LET job == scanJobs[k]
                tx == scanBlock.transactions[ScanTxIndex(job)]
            IN /\ job.txHash = tx.hash
               /\ job.from = tx.from
               /\ "to" \in DOMAIN job
               /\ job.blockNumber = scanBlock.number
               /\ job.blockHash = scanBlock.hash
               /\ job.timestamp = scanBlock.timestamp
               /\ job.l2Source = scanSource
               /\ job.blobVersionedHashes = tx.blobVersionedHashes
               /\ Len(job.blobVersionedHashes) >= 1

(***************************************************************************)
(* The blob fetcher: fetchBlobsForJob of createBlobFetcher (Beacon REST    *)
(* API).                                                                   *)
(***************************************************************************)
\* BigInt division: the quotient is truncated towards zero
BigIntDiv(a, b) == IF a >= 0 THEN a \div b ELSE -((-a) \div b)

\* mutant of isPreMerge: no timestamp is refused
isPreMergeNever(timestamp) == FALSE
\* line 65
isPreMerge(timestamp) == timestamp < MERGE_TIMESTAMP

\* mutant of slotNumberOf: the quotient is rounded up
slotNumberOfRoundedUp(timestamp) ==
    MERGE_SLOT + BigIntDiv(timestamp - MERGE_TIMESTAMP + (SECONDS_PER_SLOT - 1), SECONDS_PER_SLOT)
\* line 69
slotNumberOf(timestamp) ==
    MERGE_SLOT + BigIntDiv(timestamp - MERGE_TIMESTAMP, SECONDS_PER_SLOT)

\* a hex string: the prefix "0x", if it is written, and the digits; a value
\* that is no string is Null
HexString(prefixed, digits) == IF prefixed THEN <<"0x", digits>> ELSE <<digits>>
isString(value) == value # Null
\* lines 145-147: value.startsWith('0x') ? value : `0x${value}`
with0x(value) == IF Head(value) = "0x" THEN value ELSE <<"0x">> \o value

\* viem commitmentToVersionedHash: throws unless the commitment is hex
isHex(commitment) == commitment[2] \in {"c1", "c2", "c3"}
commitmentToVersionedHash(commitment) ==
    CASE commitment[2] = "c1" -> "h1"
      [] commitment[2] = "c2" -> "h2"
      [] commitment[2] = "c3" -> "h3"

BeaconApiBlobSidecar(blob, commitment, proof) ==
    [blob |-> blob, kzg_commitment |-> commitment, kzg_proof |-> proof]
\* the entries a Beacon API response may hold in its data array
Sidecars ==
    { BeaconApiBlobSidecar(HexString(TRUE, "b1"), HexString(TRUE, "c1"), HexString(TRUE, "p1")),
      BeaconApiBlobSidecar(HexString(FALSE, "b2"), HexString(FALSE, "c2"), HexString(FALSE, "p2")),
      BeaconApiBlobSidecar(HexString(TRUE, "b3"), HexString(TRUE, "c3"), HexString(TRUE, "p3")),
      BeaconApiBlobSidecar(HexString(TRUE, "b4"), HexString(TRUE, "zz"), HexString(TRUE, "p4")),
      BeaconApiBlobSidecar(HexString(TRUE, "b5"), HexString(TRUE, "c1"), Null) }
SidecarLists == UNION {[1..n -> Sidecars] : n \in 0..MaxSidecars}

\* what one call of fetch(beaconApiUrl) leads to: the call throws, or the
\* response has a status, a body that parses or not, and a shape
Reply(thrown, ok, parses, versionIsString, dataIsArray, data) ==
    [thrown |-> thrown, ok |-> ok, parses |-> parses,
     versionIsString |-> versionIsString, dataIsArray |-> dataIsArray, data |-> data]
TransportError == Reply(TRUE, FALSE, FALSE, FALSE, FALSE, << >>)
\* a transport error, a status that is not OK, a body that is no JSON, a body
\* without version but with a data array, a body with version but no data array
FailedReplies ==
    { TransportError,
      Reply(FALSE, FALSE, TRUE, FALSE, FALSE, << >>),
      Reply(FALSE, TRUE, FALSE, FALSE, FALSE, << >>),
      Reply(FALSE, TRUE, TRUE, FALSE, TRUE,
            << BeaconApiBlobSidecar(HexString(TRUE, "b1"), HexString(TRUE, "c1"),
                                    HexString(TRUE, "p1")) >>),
      Reply(FALSE, TRUE, TRUE, TRUE, FALSE, << >>) }
Replies == FailedReplies \cup {Reply(FALSE, TRUE, TRUE, TRUE, TRUE, d) : d \in SidecarLists}

\* lines 92-114: what the attempt throws: fetch rejects (92), the status is
\* not OK (101-104), the body is no JSON (106), the shape is wrong (109-114);
\* "none" when the attempt sets beaconApiResponse
errorOf(reply) ==
    IF reply.thrown THEN "transport"
    ELSE IF ~reply.ok THEN "status"
    ELSE IF ~reply.parses THEN "json"
    ELSE IF reply.dataIsArray /\ reply.versionIsString THEN "none"
    ELSE "shape"

\* line 123: the response put in place when all attempts have failed
EmptyResponse == [version |-> "", data |-> << >>]

\* line 87
loopContinues(att, cfg, response) == att < cfg.retryCount /\ response = Null
\* mutant of retryFollows: the last attempt is taken for one before the last
retryFollowsLast(att, cfg) == att <= cfg.retryCount
\* line 119
retryFollows(att, cfg) == att < cfg.retryCount

\* line 128
failedToFetch(job, response, lastErr) ==
    \/ response = Null
    \/ /\ Len(response[1].data) = 0
       /\ Len(job.blobVersionedHashes) > 0
       /\ lastErr # "none"

\* lines 144-149 throw a TypeError unless blob, kzg_commitment and kzg_proof
\* of every entry are strings
mappable(data) ==
    \A i \in DOMAIN data :
        isString(data[i].blob) /\ isString(data[i].kzg_commitment) /\ isString(data[i].kzg_proof)
mappedSidecars(data) ==
    [i \in DOMAIN data |->
        [blob |-> with0x(data[i].blob),
         kzgCommitment |-> with0x(data[i].kzg_commitment),
         kzgProof |-> with0x(data[i].kzg_proof)]]

\* mutant of includes: every derived hash passes for an expected one
includesAny(list, x) == TRUE
\* line 165: job.blobVersionedHashes.includes(hash)
includes(list, x) == \E i \in DOMAIN list : list[i] = x

\* mutant of reconcile: the first derivation error ends the loop
RECURSIVE reconcileUntilError(_, _, _)
reconcileUntilError(sidecars, expected, acc) ==
    IF sidecars = << >> THEN acc
    ELSE LET sidecar == Head(sidecars)
         IN IF ~isHex(sidecar.kzgCommitment)
            THEN [acc EXCEPT !.errors =
                     Append(@, [kind |-> "sidecar", hashes |-> << >>])]
            ELSE LET derived == commitmentToVersionedHash(sidecar.kzgCommitment)
                 IN IF includes(expected, derived)
                    THEN reconcileUntilError(Tail(sidecars), expected,
                             [acc EXCEPT !.fetched =
                                 Append(@, [versionedHash |-> derived,
                                            blob |-> sidecar.blob,
                                            kzgProof |-> sidecar.kzgProof,
                                            kzgCommitment |-> sidecar.kzgCommitment]),
                                         !.found = @ \cup {derived}])
                    ELSE reconcileUntilError(Tail(sidecars), expected, acc)

\* lines 152-179: the loop over the mapped sidecars; acc holds
\* fetchedBlobsForTx, foundVersionedHashes and errorsEncountered
RECURSIVE reconcile(_, _, _)
reconcile(sidecars, expected, acc) ==
    IF sidecars = << >> THEN acc
    ELSE LET sidecar == Head(sidecars)
         IN IF ~isHex(sidecar.kzgCommitment)
            THEN reconcile(Tail(sidecars), expected,
                     [acc EXCEPT !.errors =
                         Append(@, [kind |-> "sidecar", hashes |-> << >>])])
            ELSE LET derived == commitmentToVersionedHash(sidecar.kzgCommitment)
                 IN IF includes(expected, derived)
                    THEN reconcile(Tail(sidecars), expected,
                             [acc EXCEPT !.fetched =
                                 Append(@, [versionedHash |-> derived,
                                            blob |-> sidecar.blob,
                                            kzgProof |-> sidecar.kzgProof,
                                            kzgCommitment |-> sidecar.kzgCommitment]),
                                         !.found = @ \cup {derived}])
                    ELSE reconcile(Tail(sidecars), expected, acc)

\* mutant of allExpectedBlobsFound: one found hash is enough
allExpectedBlobsFoundSome(expected, found) ==
    Len(expected) = 0 \/ \E i \in DOMAIN expected : expected[i] \in found

\* line 181: length === 0 || every(hash => foundVersionedHashes.has(hash))
allExpectedBlobsFound(expected, found) ==
    Len(expected) = 0 \/ \A i \in DOMAIN expected : expected[i] \in found

\* mutant of missingHashes: the warning names every expected hash
missingHashesAll(expected, found) == expected

\* line 184: filter(hash => !foundVersionedHashes.has(hash))
missingHashes(expected, found) ==
    SelectSeqBy(expected, {expected[i] : i \in DOMAIN expected} \ found)

\* lines 181-201
resultData(job, acc) ==
    LET expected == job.blobVersionedHashes
        errorsEncountered ==
            IF ~allExpectedBlobsFound(expected, acc.found) /\ Len(expected) > 0
            THEN Append(acc.errors, [kind |-> "missing",
                                     hashes |-> missingHashes(expected, acc.found)])
            ELSE acc.errors
        data == [transactionHash |-> job.txHash,
                 blockNumber |-> job.blockNumber,
                 blockHash |-> job.blockHash,
                 timestamp |-> job.timestamp,
                 from |-> job.from,
                 l2Source |-> job.l2Source,
                 expectedBlobVersionedHashes |-> expected,
                 fetchedBlobs |-> acc.fetched,
                 allBlobsFound |-> allExpectedBlobsFound(expected, acc.found)]
    IN IF Len(errorsEncountered) > 0 THEN [errors |-> errorsEncountered] @@ data ELSE data

\* lines 128-209: how the call settles once the retry loop is left
fetchOutcome(job, response, lastErr) ==
    IF failedToFetch(job, response, lastErr) THEN Err("fetch")
    ELSE IF ~mappable(response[1].data) THEN Rejected
    ELSE Ok(resultData(job, reconcile(mappedSidecars(response[1].data),
                                      job.blobVersionedHashes,
                                      [fetched |-> << >>, found |-> {}, errors |-> << >>])))

\* the inputs of the fetcher
FetchTimestamps ==
    {MERGE_TIMESTAMP - 1, MERGE_TIMESTAMP, MERGE_TIMESTAMP + 11,
     MERGE_TIMESTAMP + 12, MERGE_TIMESTAMP + 24}
ExpectedLists == {<< >>, <<"h1">>, <<"h1", "h2">>}
FetchJobs ==
    {[blockNumber |-> 7, blockHash |-> <<"h", 7>>, timestamp |-> ts, txHash |-> "t1",
      from |-> <<"f", "t1">>, blobVersionedHashes |-> e, l2Source |-> l2Source] :
        ts \in FetchTimestamps, e \in ExpectedLists}
\* blobFetcher.retryCount (validated positive), the default when it is not set
RetryCounts == (1..MaxRetryCount) \cup {DefaultRetryCount}

\* line 44-51: fetchBlobsForJob(job) is called and awaits getBlock
fetchBlobsForJob(job) ==
    /\ fetchJob' = job
    /\ fetchPc' = "getBlock"
    /\ chainBlock' = << >> /\ slotNumber' = NoBlock
    /\ attempt' = 0 /\ beaconApiResponse' = Null /\ lastError' = "none"
    /\ lastReply' = << >>
    /\ requests' = << >> /\ sleeps' = 0
    /\ fetchResult' = Pending

InitFetcher ==
    /\ MonitorIdle /\ ScannerIdle /\ WorkerIdle /\ QueueIdle /\ ArchiverIdle
    /\ fetcherConfig \in [retryCount : RetryCounts]
    /\ fetchJob \in FetchJobs
    /\ fetchPc = "getBlock"
    /\ chainBlock = << >> /\ slotNumber = NoBlock
    /\ attempt = 0 /\ beaconApiResponse = Null /\ lastError = "none"
    /\ lastReply = << >>
    /\ requests = << >> /\ sleeps = 0
    /\ fetchResult = Pending
    /\ fetches = 1 /\ slotLog = {}

\* the while loop of line 87 is at its top with attempt = att, the response
\* and lastErr; a further attempt issues its request for the slot, otherwise
\* lines 128-209 settle the call
retryLoop(att, response, lastErr, slot) ==
    /\ beaconApiResponse' = response
    /\ lastError' = lastErr
    /\ IF loopContinues(att, fetcherConfig, response)
       THEN /\ attempt' = att + 1
            /\ requests' = Append(requests, slot)
            /\ fetchPc' = "request"
            /\ UNCHANGED fetchResult
       ELSE /\ fetchPc' = "done"
            /\ fetchResult' = fetchOutcome(fetchJob, response, lastErr)
            /\ UNCHANGED <<attempt, requests>>

\* lines 57-70: viemClient.getBlock returns a block with the timestamp ts
GetBlockReturns(ts) ==
    /\ fetchPc = "getBlock"
    /\ chainBlock' = << [number |-> fetchJob.blockNumber, timestamp |-> ts] >>
    /\ IF isPreMerge(ts)
       THEN /\ fetchResult' = Err("slot")
            /\ fetchPc' = "done"
            /\ UNCHANGED <<slotNumber, attempt, beaconApiResponse, lastError, requests,
                           slotLog>>
       ELSE /\ slotNumber' = slotNumberOf(ts)
            /\ slotLog' = slotLog \cup {<<ts, slotNumberOf(ts)>>}
            /\ retryLoop(attempt, beaconApiResponse, lastError, slotNumberOf(ts))
    /\ UNCHANGED <<archiverVars, queueVars, monitorVars, scannerVars, workerVars, fetcherConfig, fetchJob, lastReply, sleeps,
                   fetches>>

\* lines 57, 71-75: viemClient.getBlock throws
GetBlockThrows ==
    /\ fetchPc = "getBlock"
    /\ fetchResult' = Err("slot")
    /\ fetchPc' = "done"
    /\ UNCHANGED <<archiverVars, queueVars, monitorVars, scannerVars, workerVars, fetcherConfig, fetchJob, chainBlock, slotNumber,
                   attempt, beaconApiResponse, lastError, lastReply, requests, sleeps,
                   fetches, slotLog>>

\* lines 92-125: the REST request of the current attempt ends with reply
RestReplies(reply) ==
    /\ fetchPc = "request"
    /\ lastReply' = <<reply>>
    /\ IF errorOf(reply) = "none"
       THEN /\ retryLoop(attempt, << [version |-> "v", data |-> reply.data] >>,
                         lastError, slotNumber)
            /\ UNCHANGED sleeps
       ELSE IF retryFollows(attempt, fetcherConfig)
            THEN /\ lastError' = errorOf(reply)
                 /\ sleeps' = sleeps + 1
                 /\ fetchPc' = "sleep"
                 /\ UNCHANGED <<attempt, beaconApiResponse, requests, fetchResult>>
            ELSE /\ retryLoop(attempt, <<EmptyResponse>>, errorOf(reply), slotNumber)
                 /\ UNCHANGED sleeps
    /\ UNCHANGED <<archiverVars, queueVars, monitorVars, scannerVars, workerVars, fetcherConfig, fetchJob, chainBlock, slotNumber,
                   fetches, slotLog>>

\* line 120: the retry delay is over
SleepEnds ==
    /\ fetchPc = "sleep"
    /\ retryLoop(attempt, beaconApiResponse, lastError, slotNumber)
    /\ UNCHANGED <<archiverVars, queueVars, monitorVars, scannerVars, workerVars, fetcherConfig, fetchJob, chainBlock, slotNumber,
                   lastReply, sleeps, fetches, slotLog>>

\* the fetcher worker passes its next job to fetchBlobsForJob
NextFetch(job) ==
    /\ fetchPc = "done" /\ fetches < MaxFetches
    /\ fetches' = fetches + 1
    /\ fetchBlobsForJob(job)
    /\ UNCHANGED <<archiverVars, queueVars, monitorVars, scannerVars, workerVars, fetcherConfig, slotLog>>

NextFetcher ==
    \/ \E ts \in FetchTimestamps : GetBlockReturns(ts)
    \/ GetBlockThrows
    \/ \E reply \in Replies : RestReplies(reply)
    \/ SleepEnds
    \/ \E job \in FetchJobs : NextFetch(job)

SpecFetcher == InitFetcher /\ [][NextFetcher]_vars

(***************************************************************************)
(* Properties of the blob fetcher.                                         *)
(***************************************************************************)
\* the call settled with the error of lines 71-75
SlotFailed == fetchResult.kind = "Err" /\ fetchResult.error = "slot"
\* an attempt of the current call has failed
AttemptFailed == lastError # "none"

\* C16: every slot calculated from a timestamp at or after the merge timestamp
\* 1663224179 is 4700013 + floor((timestamp - 1663224179) / 12): the merge
\* timestamp itself gives 4700013, 24 s later gives 4700015, and of two
\* timestamps the later one never gets the smaller slot.
C16_SlotFormula ==
    /\ \A p \in slotLog :
          /\ p[1] >= 1663224179
          /\ p[2] = 4700013 + ((p[1] - 1663224179) \div 12)
          /\ p[1] = 1663224179 => p[2] = 4700013
          /\ p[1] = 1663224179 + 24 => p[2] = 4700013 + 2
    /\ \A p, q \in slotLog : p[1] <= q[1] => p[2] <= q[2]
    /\ slotNumber # NoBlock =>
          /\ chainBlock # << >>
          /\ <<chainBlock[1].timestamp, slotNumber>> \in slotLog

\* two calls have calculated their slots: the one from a timestamp 11 s after
\* the merge, the other from one 24 s after the merge
C16_Witness ==
    /\ <<MERGE_TIMESTAMP + 11, MERGE_SLOT>> \in slotLog
    /\ <<MERGE_TIMESTAMP + 24, MERGE_SLOT + 2>> \in slotLog
    /\ fetchPc = "done"

\* C17: when the block's timestamp is before the merge timestamp, and likewise
\* when the block cannot be read, the call settles at once with an error
\* result: no slot is calculated, no REST request is issued, no attempt is
\* counted and no delay is waited.
C17_SlotFailureTerminal ==
    /\ (chainBlock # << >> /\ chainBlock[1].timestamp < 1663224179) => SlotFailed
    /\ SlotFailed =>
          /\ fetchPc = "done"
          /\ slotNumber = NoBlock
          /\ requests = << >> /\ attempt = 0 /\ sleeps = 0
          /\ beaconApiResponse = Null

\* the second call of a run got a block from before the merge and has settled
C17_Witness ==
    /\ fetches = 2
    /\ chainBlock # << >>
    /\ chainBlock[1].timestamp < MERGE_TIMESTAMP
    /\ SlotFailed

\* C18 as claimed: the slot of every REST request of a call is the slot of the
\* job's own timestamp, whatever the chain client returned.
C18_Claim ==
    fetchJob.timestamp >= 1663224179 =>
        \A i \in DOMAIN requests :
            requests[i] = 4700013 + ((fetchJob.timestamp - 1663224179) \div 12)

\* C19 as claimed: the call never rejects; it settles with a result value.
C19_Claim ==
    fetchResult.kind # "rejected"

\* C20: a call issues at most retryCount REST requests, one per attempt; no
\* request follows a well-formed response; an attempt that fails, by a
\* transport error or by a body of another shape alike, is followed by one
\* delay and a next request when attempts are left, and by neither when it
\* was the last one.
C20_RetryBounded ==
    /\ Len(requests) <= fetcherConfig.retryCount
    /\ attempt = Len(requests)
    /\ fetchPc = "request" => sleeps = attempt - 1 /\ beaconApiResponse = Null
    /\ fetchPc = "sleep" =>
          /\ sleeps = attempt /\ attempt < fetcherConfig.retryCount
          /\ beaconApiResponse = Null /\ AttemptFailed
    /\ (fetchPc = "done" /\ attempt > 0) =>
          /\ sleeps = attempt - 1
          /\ beaconApiResponse # Null
          /\ beaconApiResponse[1].version = "" =>
                attempt = fetcherConfig.retryCount /\ AttemptFailed
    /\ beaconApiResponse # Null => fetchPc = "done"
    /\ (fetchPc \in {"sleep", "done"} /\ attempt > 0) =>
          LET reply == lastReply[1]
          IN IF reply.thrown \/ ~reply.ok \/ ~reply.parses
                \/ ~reply.versionIsString \/ ~reply.dataIsArray
             THEN /\ AttemptFailed
                  /\ fetchPc = "done" => beaconApiResponse[1] = EmptyResponse
             ELSE /\ fetchPc = "done"
                  /\ beaconApiResponse[1].version # ""
                  /\ beaconApiResponse[1].data = reply.data

\* a call with retryCount 3 has settled after its third attempt, which
\* failed by a transport error as the one before had by a body without data
\* array: three requests were issued and two delays waited
C20_Witness ==
    /\ fetchPc = "done"
    /\ fetcherConfig.retryCount = 3
    /\ Len(requests) = 3 /\ sleeps = 2
    /\ lastReply = <<TransportError>>
    /\ beaconApiResponse = <<EmptyResponse>>

\* C21 as claimed: when an attempt of the call, the first or one after failed
\* attempts, gets a valid response (one that passes the validation of lines
\* 109-111 and whose sidecars have their three string fields), the call
\* settles with a success result built from that response.
C21_Claim ==
    (/\ fetchPc = "done" /\ attempt > 0
     /\ errorOf(lastReply[1]) = "none"
     /\ mappable(lastReply[1].data)) =>
        /\ fetchResult.kind = "Ok"
        /\ fetchResult.value =
              resultData(fetchJob,
                         reconcile(mappedSidecars(lastReply[1].data),
                                   fetchJob.blobVersionedHashes,
                                   [fetched |-> << >>, found |-> {}, errors |-> << >>]))

C23_AllFoundIffCovered ==
    fetchResult.kind = "Ok" =>
        LET value == fetchResult.value
            expected == fetchJob.blobVersionedHashes
        IN /\ value.allBlobsFound <=>
                 \A i \in DOMAIN expected :
                     \E j \in DOMAIN value.fetchedBlobs :
                         value.fetchedBlobs[j].versionedHash = expected[i]
           /\ expected = << >> => value.allBlobsFound

\* a job expecting h1 and h2 got only the sidecar of h1, and the result says
\* that not all blobs were found
C23_Witness ==
    /\ fetchResult.kind = "Ok"
    /\ fetchJob.blobVersionedHashes = <<"h1", "h2">>
    /\ Len(fetchResult.value.fetchedBlobs) = 1
    /\ fetchResult.value.fetchedBlobs[1].versionedHash = "h1"
    /\ ~fetchResult.value.allBlobsFound

\* C24: every fetched blob of a success result carries the versioned hash
\* derived from its own commitment, that hash is one the job expects, and
\* the blob is a sidecar of the response; a sidecar whose derived hash the
\* job does not expect adds no fetched blob and no error to the result.
C24_FetchedAreDerivedAndExpected ==
    fetchResult.kind = "Ok" =>
        LET value == fetchResult.value
            expected == fetchJob.blobVersionedHashes
            sidecars == mappedSidecars(beaconApiResponse[1].data)
            kept == {i \in DOMAIN sidecars :
                        /\ isHex(sidecars[i].kzgCommitment)
                        /\ \E k \in DOMAIN expected :
                              expected[k] =
                                  commitmentToVersionedHash(sidecars[i].kzgCommitment)}
            underivable == {i \in DOMAIN sidecars : ~isHex(sidecars[i].kzgCommitment)}
            sidecarErrors ==
                IF "errors" \in DOMAIN value
                THEN {e \in DOMAIN value.errors : value.errors[e].kind = "sidecar"}
                ELSE {}
        IN /\ \A j \in DOMAIN value.fetchedBlobs :
                 LET fetched == value.fetchedBlobs[j]
                 IN /\ fetched.versionedHash =
                          commitmentToVersionedHash(fetched.kzgCommitment)
                    /\ \E k \in DOMAIN expected : expected[k] = fetched.versionedHash
                    /\ \E i \in kept :
                          /\ sidecars[i].kzgCommitment = fetched.kzgCommitment
                          /\ sidecars[i].blob = fetched.blob
                          /\ sidecars[i].kzgProof = fetched.kzgProof
           /\ Len(value.fetchedBlobs) = Cardinality(kept)
           /\ Cardinality(sidecarErrors) = Cardinality(underivable)

\* a job expecting h1 got the sidecars of h3 and of h1: the result holds the
\* blob of h1 alone and no error
C24_Witness ==
    /\ fetchResult.kind = "Ok"
    /\ fetchJob.blobVersionedHashes = <<"h1">>
    /\ Len(beaconApiResponse[1].data) = 2
    /\ beaconApiResponse[1].data[1].kzg_commitment = HexString(TRUE, "c3")
    /\ Len(fetchResult.value.fetchedBlobs) = 1
    /\ fetchResult.value.fetchedBlobs[1].versionedHash = "h1"
    /\ "errors" \notin DOMAIN fetchResult.value

\* C25: a success result for a job with unmatched expected hashes ends its
\* error list with one error naming exactly the expected hashes that no
\* fetched blob carries, in the job's order; a result with nothing missing
\* has no such error, and no errors field at all unless a derivation failed.
C25_MissingNamed ==
    fetchResult.kind = "Ok" =>
        LET value == fetchResult.value
            expected == fetchJob.blobVersionedHashes
            foundHashes == {value.fetchedBlobs[j].versionedHash :
                                j \in DOMAIN value.fetchedBlobs}
            missing == {i \in DOMAIN expected : expected[i] \notin foundHashes}
            missingErrors ==
                IF "errors" \in DOMAIN value
                THEN {e \in DOMAIN value.errors : value.errors[e].kind = "missing"}
                ELSE {}
        IN IF missing # {}
           THEN /\ ~value.allBlobsFound
                /\ missingErrors = {Len(value.errors)}
                /\ LET named == value.errors[Len(value.errors)].hashes
                   IN /\ Len(named) = Cardinality(missing)
                      /\ \A i \in missing : \E n \in DOMAIN named : named[n] = expected[i]
                      /\ \A n \in DOMAIN named :
                            \E i \in missing : named[n] = expected[i]
                      /\ \A m, n \in DOMAIN named :
                            m < n => \E i, k \in missing :
                                        /\ i < k
                                        /\ expected[i] = named[m]
                                        /\ expected[k] = named[n]
           ELSE /\ missingErrors = {}
                /\ "errors" \in DOMAIN value =>
                      \E i \in DOMAIN beaconApiResponse[1].data :
                          ~isHex(with0x(beaconApiResponse[1].data[i].kzg_commitment))

\* the example of the claim: expected h1 and h2, sidecars deriving h1 and h3;
\* the result holds the blob of h1, allBlobsFound is false and the one error
\* names h2
C25_Witness ==
    /\ fetchResult.kind = "Ok"
    /\ fetchJob.blobVersionedHashes = <<"h1", "h2">>
    /\ Len(beaconApiResponse[1].data) = 2
    /\ beaconApiResponse[1].data[1].kzg_commitment = HexString(TRUE, "c1")
    /\ beaconApiResponse[1].data[2].kzg_commitment = HexString(TRUE, "c3")
    /\ Len(fetchResult.value.fetchedBlobs) = 1
    /\ fetchResult.value.fetchedBlobs[1].versionedHash = "h1"
    /\ ~fetchResult.value.allBlobsFound
    /\ fetchResult.value.errors = << [kind |-> "missing", hashes |-> <<"h2">>] >>

\* C26: a sidecar whose commitment cannot be derived leaves the call a
\* success: the result records an error for it, and every other sidecar of
\* the response, before or after it, whose derived hash the job expects is
\* among the fetched blobs and counts for allBlobsFound.
C26_DerivationErrorNotFatal ==
    (/\ fetchPc = "done" /\ beaconApiResponse # Null
     /\ mappable(beaconApiResponse[1].data)
     /\ ~failedToFetch(fetchJob, beaconApiResponse, lastError)) =>
        LET sidecars == mappedSidecars(beaconApiResponse[1].data)
            expected == fetchJob.blobVersionedHashes
            underivable == {i \in DOMAIN sidecars : ~isHex(sidecars[i].kzgCommitment)}
        IN underivable # {} =>
              /\ fetchResult.kind = "Ok"
              /\ "errors" \in DOMAIN fetchResult.value
              /\ \A i \in underivable :
                    LET n == Cardinality({k \in underivable : k <= i})
                    IN /\ n <= Len(fetchResult.value.errors)
                       /\ fetchResult.value.errors[n].kind = "sidecar"
              /\ \A i \in DOMAIN sidecars \ underivable :
                    LET derived == commitmentToVersionedHash(sidecars[i].kzgCommitment)
                    IN (\E k \in DOMAIN expected : expected[k] = derived) =>
                          \E j \in DOMAIN fetchResult.value.fetchedBlobs :
                              /\ fetchResult.value.fetchedBlobs[j].versionedHash = derived
                              /\ fetchResult.value.fetchedBlobs[j].blob = sidecars[i].blob
              /\ fetchResult.value.allBlobsFound <=>
                    \A k \in DOMAIN expected :
                        \E i \in DOMAIN sidecars \ underivable :
                            commitmentToVersionedHash(sidecars[i].kzgCommitment)
                                = expected[k]

\* the first sidecar of the response has a commitment that is no hex string,
\* the second derives h1, the one hash the job expects: the result holds the
\* blob of h1, says that all blobs were found and records the one error
C26_Witness ==
    /\ fetchResult.kind = "Ok"
    /\ fetchJob.blobVersionedHashes = <<"h1">>
    /\ Len(beaconApiResponse[1].data) = 2
    /\ beaconApiResponse[1].data[1].kzg_commitment = HexString(TRUE, "zz")
    /\ Len(fetchResult.value.fetchedBlobs) = 1
    /\ fetchResult.value.fetchedBlobs[1].versionedHash = "h1"
    /\ fetchResult.value.allBlobsFound
    /\ fetchResult.value.errors = << [kind |-> "sidecar", hashes |-> << >>] >>

\* C27 as claimed: every success result repeats the job's transaction hash,
\* block number, block hash, timestamp, source address, L2 source label and
\* expected hashes, has the destination address, and has the slot the
\* requests of the call were issued for.
C27_Claim ==
    fetchResult.kind = "Ok" =>
        LET value == fetchResult.value
        IN /\ value.transactionHash = fetchJob.txHash
           /\ value.blockNumber = fetchJob.blockNumber
           /\ value.blockHash = fetchJob.blockHash
           /\ value.timestamp = fetchJob.timestamp
           /\ value.from = fetchJob.from
           /\ value.l2Source = fetchJob.l2Source
           /\ value.expectedBlobVersionedHashes = fetchJob.blobVersionedHashes
           /\ "to" \in DOMAIN value
           /\ "slot" \in DOMAIN value
           /\ value.slot = slotNumber

(***************************************************************************)
(* blob-fetcher/worker.ts: createBlobFetcherWorker                         *)
(***************************************************************************)
InitWorker ==
    /\ MonitorIdle /\ ScannerIdle /\ FetcherIdle /\ WorkerIdle /\ QueueIdle /\ ArchiverIdle

\* mutant of processJobReturns: the error of a failed job leaves processJob
\* and reaches the catch of work (lines 76-82)
processJobThrows(payload, logged) ==
    /\ jobLog' = Append(jobLog, [job |-> payload.id, outcome |-> logged])
    /\ jobString' = << >>
    /\ workPc' = IF isShuttingDown THEN "exited"
                 ELSE IF logged = "archived" THEN "brpop" ELSE "backoff"

\* lines 39-60, 64-70: processJob has logged how the job ended (51 archived,
\* 52 fetch error result, 57 exception) and returns; work evaluates the
\* condition of its while loop and calls brpop again
processJobReturns(payload, logged) ==
    /\ jobLog' = Append(jobLog, [job |-> payload.id, outcome |-> logged])
    /\ jobString' = << >>
    /\ workPc' = IF isShuttingDown THEN "exited" ELSE "brpop"

\* lines 86-93: start()
start ==
    /\ workPc = "created"
    /\ isShuttingDown' = FALSE
    /\ workPc' = "brpop"
    /\ UNCHANGED <<archiverVars, queueVars, monitorVars, scannerVars, fetcherVars, stoppedAt, blobFetchQueue, blobArchiveQueue,
                   jobString, jobLog, pushed>>

\* a client of the Redis server pushes a payload to the fetch list: JSON
\* text (json) or text that is no JSON
Lpush(json) ==
    /\ pushed < MaxJobs
    /\ pushed' = pushed + 1
    /\ blobFetchQueue' = << [id |-> pushed + 1, json |-> json] >> \o blobFetchQueue
    /\ UNCHANGED <<archiverVars, queueVars, monitorVars, scannerVars, fetcherVars, stoppedAt, blobArchiveQueue, isShuttingDown,
                   workPc, jobString, jobLog>>

\* lines 66-82: the brpop of line 66 returns the last payload of the list
\* ("job"), returns null after JOB_TIMEOUT_S ("null") or throws ("throws");
\* lines 41-44: processJob parses the payload and calls fetchBlobsForJob
Brpop(result) ==
    /\ workPc = "brpop"
    /\ CASE result = "job" ->
              /\ blobFetchQueue # << >>
              /\ blobFetchQueue' = SubSeq(blobFetchQueue, 1, Len(blobFetchQueue) - 1)
              /\ LET payload == blobFetchQueue[Len(blobFetchQueue)]
                 IN IF payload.json
                    THEN /\ jobString' = <<payload>>
                         /\ workPc' = "fetch"
                         /\ UNCHANGED jobLog
                    ELSE processJobReturns(payload, "parse")
         [] result = "null" ->
              /\ blobFetchQueue = << >>
              /\ workPc' = IF isShuttingDown THEN "exited" ELSE "brpop"
              /\ UNCHANGED <<blobFetchQueue, jobString, jobLog>>
         [] result = "throws" ->
              /\ workPc' = IF isShuttingDown THEN "exited" ELSE "backoff"
              /\ UNCHANGED <<blobFetchQueue, jobString, jobLog>>
    /\ UNCHANGED <<archiverVars, queueVars, monitorVars, scannerVars, fetcherVars, stoppedAt, blobArchiveQueue, isShuttingDown,
                   pushed>>

\* line 80: the delay after a failed brpop is over
BackoffEnds ==
    /\ workPc = "backoff"
    /\ workPc' = IF isShuttingDown THEN "exited" ELSE "brpop"
    /\ UNCHANGED <<archiverVars, queueVars, monitorVars, scannerVars, fetcherVars, stoppedAt, blobFetchQueue, blobArchiveQueue,
                   isShuttingDown, jobString, jobLog, pushed>>

\* lines 44-59: fetchBlobsForJob settles with a success result, with an
\* error result, or rejects
FetchSettles(result) ==
    /\ workPc = "fetch"
    /\ CASE result.kind = "Ok" -> /\ workPc' = "lpush"
                                  /\ UNCHANGED <<jobString, jobLog>>
         [] result.kind = "Err" -> processJobReturns(jobString[1], "fetchErr")
         [] result.kind = "rejected" -> processJobReturns(jobString[1], "fetchThrew")
    /\ UNCHANGED <<archiverVars, queueVars, monitorVars, scannerVars, fetcherVars, stoppedAt, blobFetchQueue, blobArchiveQueue,
                   isShuttingDown, pushed>>

\* lines 50-51, 56-59: the lpush to the archive list returns, or throws
ArchiveLpush(throws) ==
    /\ workPc = "lpush"
    /\ IF throws
       THEN /\ processJobReturns(jobString[1], "lpushThrew")
            /\ UNCHANGED blobArchiveQueue
       ELSE /\ processJobReturns(jobString[1], "archived")
            /\ blobArchiveQueue' = << [id |-> jobString[1].id] >> \o blobArchiveQueue
    /\ UNCHANGED <<archiverVars, queueVars, monitorVars, scannerVars, fetcherVars, stoppedAt, blobFetchQueue, isShuttingDown,
                   pushed>>

\* blob-archiver/worker.ts line 64: the brpop of the archiver worker, started
\* by main next to the fetcher worker, returns the last payload of the
\* archive list
ArchiverTakes ==
    /\ blobArchiveQueue # << >>
    /\ blobArchiveQueue' = SubSeq(blobArchiveQueue, 1, Len(blobArchiveQueue) - 1)
    /\ UNCHANGED <<archiverVars, queueVars, monitorVars, scannerVars, fetcherVars, stoppedAt, blobFetchQueue,
                   isShuttingDown, workPc, jobString, jobLog, pushed>>

\* lines 95-103: stop(); the quit of line 98 makes a pending brpop throw
stop ==
    /\ workPc # "created" /\ ~isShuttingDown
    /\ isShuttingDown' = TRUE
    /\ stoppedAt' = << [pc |-> workPc, job |-> jobString] >>
    /\ UNCHANGED <<archiverVars, queueVars, monitorVars, scannerVars, fetcherVars, blobFetchQueue, blobArchiveQueue,
                   workPc, jobString, jobLog, pushed>>

NextWorker ==
    \/ start
    \/ \E json \in BOOLEAN : Lpush(json)
    \/ \E result \in {"job", "null", "throws"} : Brpop(result)
    \/ BackoffEnds
    \/ \E result \in {Ok(<< >>), Err("fetch"), Rejected} : FetchSettles(result)
    \/ \E throws \in BOOLEAN : ArchiveLpush(throws)
    \/ ArchiverTakes
    \/ stop

SpecWorker == InitWorker /\ [][NextWorker]_vars

(***************************************************************************)
(* Properties of the fetcher worker.                                       *)
(***************************************************************************)
\* C28: every payload pushed to the fetch list is waiting in the list, in
\* the hands of processJob, or has been taken and logged, in the order of
\* the pushes; and the step that ends a job, failed or not, leaves work at
\* its next brpop (or at its end when stop() was called) with the payloads
\* behind the job still in the list: no failed job sends work to the catch
\* of its loop or ends the loop.
C28_JobFailureContained ==
    /\ [](/\ pushed = Len(blobFetchQueue) + Len(jobString) + Len(jobLog)
          /\ \A i \in DOMAIN jobLog : jobLog[i].job = i
          /\ jobString # << >> => jobString[1].id = Len(jobLog) + 1
          /\ \A k \in DOMAIN blobFetchQueue : blobFetchQueue[k].id = pushed + 1 - k)
    /\ [][Len(jobLog') = Len(jobLog) + 1 =>
            /\ workPc' = IF isShuttingDown THEN "exited" ELSE "brpop"
            /\ jobString' = << >>
            /\ \A k \in DOMAIN blobFetchQueue :
                  blobFetchQueue[k].id > Len(jobLog') =>
                      /\ k \in DOMAIN blobFetchQueue'
                      /\ blobFetchQueue'[k] = blobFetchQueue[k]]_vars

\* three payloads were pushed: the first was no JSON, the fetch of the second
\* threw, and the third was then taken, fetched and handed to the archive
\* list; work is at its next brpop
C28_Witness ==
    /\ Len(jobLog) = 3
    /\ jobLog[1].outcome = "parse"
    /\ jobLog[2].outcome = "fetchThrew"
    /\ jobLog[3].outcome = "archived"
    /\ blobArchiveQueue = << [id |-> 3] >>
    /\ workPc = "brpop" /\ ~isShuttingDown

\* C30 as claimed: a job taken from the fetch list whose fetch ended in an
\* error result or threw, or whose hand-over to the archive list threw, is
\* in the fetch list again, available for a next brpop.
C30_Claim ==
    \A i \in DOMAIN jobLog :
        jobLog[i].outcome \in {"fetchErr", "fetchThrew", "lpushThrew"} =>
            \E k \in DOMAIN blobFetchQueue : blobFetchQueue[k].id = jobLog[i].job

(***************************************************************************)
(* monitor.ts: createMonitorState over restarts of the process             *)
(***************************************************************************)
\* config.blocksFromHead
StartLookbacks == {0, 2, 9}

\* createMonitorState has returned: persisted is what the cursor store
\* holds (0: no row), latestBlock the head of the chain at that moment,
\* faults is 1 when client.getBlockNumber() threw
InitStart ==
    /\ ScannerIdle /\ FetcherIdle /\ WorkerIdle /\ QueueIdle /\ ArchiverIdle
    /\ config \in [confirmations : {DefaultConfirmations}, batchSize : {DefaultBatchSize},
                   blocksFromHead : StartLookbacks]
    /\ persisted \in PersistedStarts
    /\ latestBlock \in Heads
    /\ faults \in {0, 1}
    /\ lastProcessedBlock =
          createMonitorState(persisted, config.blocksFromHead,
                             IF faults = 1 THEN NoBlock ELSE latestBlock)
    /\ pc = "created"
    /\ heads = {} /\ aborted = FALSE
    /\ fromBlock = NoBlock /\ toBlock = NoBlock
    /\ currentBlock = NoBlock /\ batchEnd = NoBlock
    /\ tasks = {} /\ scanned = {} /\ emitted = << >> /\ fetchQueue = << >>
    /\ iter = 0 /\ shutdownPc = "running"
    /\ cursorBefore = 0 /\ persistedBefore = 0
    /\ outcome = "none" /\ prevFailedFrom = NoBlock /\ cancelTo = NoBlock

\* monitor.ts lines 158-159: the loop has processed a range up to
\* processedBlock; the cursor in memory is set and updateLastProcessedBlock
\* is called: the write is pending
CommitRange(processedBlock) ==
    /\ pc \in {"created", "head"}
    /\ processedBlock > lastProcessedBlock
    /\ lastProcessedBlock' = processedBlock
    /\ pc' = "persist"
    /\ UNCHANGED <<archiverVars, queueVars, scannerVars, fetcherVars, workerVars, config, heads, persisted, aborted, latestBlock,
                   fromBlock, toBlock, currentBlock, batchEnd, tasks, scanned, emitted,
                   fetchQueue, iter, faults, shutdownPc, cursorBefore, persistedBefore,
                   outcome, prevFailedFrom, cancelTo>>

\* monitor.ts lines 159-160, 169-174: the pending write of the cursor
\* completes, or throws and leaves the cursor store as it was
WriteSettles(persists) ==
    /\ pc = "persist"
    /\ persisted' = IF persists THEN updateLastProcessedBlock(persisted, lastProcessedBlock)
                    ELSE persisted
    /\ pc' = "head"
    /\ UNCHANGED <<archiverVars, queueVars, scannerVars, fetcherVars, workerVars, config, heads, lastProcessedBlock, aborted, latestBlock,
                   fromBlock, toBlock, currentBlock, batchEnd, tasks, scanned, emitted,
                   fetchQueue, iter, faults, shutdownPc, cursorBefore, persistedBefore,
                   outcome, prevFailedFrom, cancelTo>>

\* the process ends, a pending write of the cursor being lost with it, and
\* is started again: createMonitorState runs with what the cursor store
\* holds, the chain's head being head
Restart(head, headThrows) ==
    /\ iter < MaxRestarts
    /\ iter' = iter + 1
    /\ latestBlock' = head
    /\ faults' = IF headThrows THEN 1 ELSE 0
    /\ lastProcessedBlock' =
          createMonitorState(persisted, config.blocksFromHead,
                             IF headThrows THEN NoBlock ELSE head)
    /\ pc' = "created"
    /\ UNCHANGED <<archiverVars, queueVars, scannerVars, fetcherVars, workerVars, config, heads, persisted, aborted,
                   fromBlock, toBlock, currentBlock, batchEnd, tasks, scanned, emitted,
                   fetchQueue, shutdownPc, cursorBefore, persistedBefore,
                   outcome, prevFailedFrom, cancelTo>>

NextStart ==
    \/ \E processedBlock \in 1..MaxCommitted : CommitRange(processedBlock)
    \/ \E persists \in BOOLEAN : WriteSettles(persists)
    \/ \E head \in Heads, headThrows \in BOOLEAN : Restart(head, headThrows)

SpecStart == InitStart /\ [][NextStart]_vars

\* C29 as claimed, for a configured lookback of one block or more: when
\* createMonitorState has returned, at the first start or at a restart, the
\* cursor is the persisted value when there is one, and the head of the
\* chain less the lookback, floored at zero, when there is none.
C29_Claim ==
    (pc = "created" /\ config.blocksFromHead > 0) =>
        lastProcessedBlock =
            IF persisted # 0 THEN persisted
            ELSE Max(latestBlock - config.blocksFromHead, 0)

\* C33 as claimed: a call that got a well-formed response settles as a call
\* does that gets the same response for the same job on its first attempt,
\* however many attempts failed before.
C33_Claim ==
    (fetchPc = "done" /\ attempt > 0 /\ errorOf(lastReply[1]) = "none") =>
        fetchResult = fetchOutcome(fetchJob, beaconApiResponse, "none")

\* C34 as claimed: in every success result no two fetched blobs carry the
\* same versioned hash, and there are no more fetched blobs than distinct
\* expected hashes.
C34_Claim ==
    fetchResult.kind = "Ok" =>
        LET fetchedBlobs == fetchResult.value.fetchedBlobs
            expected == fetchJob.blobVersionedHashes
        IN /\ \A i, j \in DOMAIN fetchedBlobs :
                 fetchedBlobs[i].versionedHash = fetchedBlobs[j].versionedHash => i = j
           /\ Len(fetchedBlobs) <= Cardinality({expected[k] : k \in DOMAIN expected})

\* C38 as claimed: when stop() was called while the fetch of a job was
\* awaited and work has since left its loop, that job is the last one taken
\* from the fetch list, and it was written to the archive list (where it is
\* until the archiver worker takes it) or is in the fetch list.
C38_Claim ==
    (/\ workPc = "exited"
     /\ stoppedAt # << >>
     /\ stoppedAt[1].pc = "fetch") =>
        LET id == stoppedAt[1].job[1].id
        IN /\ Len(jobLog) = id
           /\ \/ jobLog[id].outcome = "archived"
              \/ \E k \in DOMAIN blobFetchQueue : blobFetchQueue[k].id = id

(***************************************************************************)
(* Further properties of the scan loop.                                    *)
(***************************************************************************)
\* C31 as claimed: the cursor does not advance past a block for which the
\* scanner returned its empty list because the block came without number
\* or hash or with its transactions as hashes only.
C31_Claim ==
    [][lastProcessedBlock' > lastProcessedBlock =>
          \A b \in (lastProcessedBlock + 1)..lastProcessedBlock' :
              /\ Chain(b).number # NoBlock /\ Chain(b).hash # Null
              /\ Len(Chain(b).transactions) > 0 => Chain(b).hydrated]_vars

\* C32 as claimed: when the stored cursor moves up, every job of every block
\* it moves over is in the fetch queue.
C32_Claim ==
    [][persisted' > persisted =>
          \A b \in (persisted + 1)..persisted' :
              \A i \in DOMAIN JobsOf(b) :
                  \E k \in DOMAIN fetchQueue' :
                      <<fetchQueue'[k]>> =
                          JSONstringify(ProcessingJob(JobsOf(b)[i]), "bigIntReplacer")]_vars

\* C35 as claimed: while nothing has failed, every block is fetched by one
\* task of one iteration only, its jobs are handed over once and in full
\* when the cursor has passed it; and a job that has been handed over by a
\* later iteration is not handed over by a task of an earlier one, so that a
\* job is emitted twice only when the earlier iteration emitted it before
\* it failed.
C35_Claim ==
    /\ [](faults = 0 =>
            /\ \A k \in DOMAIN emitted :
                  /\ Cardinality({j \in DOMAIN emitted : j[2] = k[2]}) = 1
                  /\ \E n \in 0..Len(JobsOf(k[2])) :
                        emitted[k] = SubSeq(JobsOf(k[2]), 1, n)
                  /\ k[2] <= lastProcessedBlock => emitted[k] = JobsOf(k[2])
            /\ \A t \in tasks : t.iter = iter /\ t.block \in fromBlock..toBlock
            /\ \A t, u \in tasks : t.block = u.block => t = u)
    /\ [][\A k \in DOMAIN emitted' :
             (k \notin DOMAIN emitted \/ emitted'[k] # emitted[k]) =>
                \A j \in DOMAIN emitted :
                   (j[2] = k[2] /\ j[1] > k[1]) =>
                      ~\E n \in DOMAIN emitted[j] :
                          emitted[j][n] = emitted'[k][Len(emitted'[k])]]_vars

(***************************************************************************)
(* The scan loop when it is not cancelled, the chain's head does not move  *)
(* backwards, and every call that can fail succeeds in the end.            *)
(***************************************************************************)
NextLive ==
    \/ \E h \in heads : h >= latestBlock /\ HeadOk(h)
    \/ HeadFail
    \/ \E t \in tasks : GetBlockOk(t)
    \/ \E t \in tasks : GetBlockFail(t)
    \/ \E t \in tasks : \E ok \in BOOLEAN : CallbackReturn(t, ok)
    \/ PersistOk
    \/ PersistFail
    \/ TimerFires

\* the event loop runs every continuation that is ready: the head query,
\* the block fetches, the lpush of a job, the cursor write and the timers
\* return in the end
SpecLive ==
    /\ Init /\ [][NextLive]_vars
    /\ WF_vars(\E h \in heads : h >= latestBlock /\ HeadOk(h))
    /\ WF_vars(\E t \in tasks : GetBlockOk(t))
    /\ WF_vars(\E t \in tasks : CallbackReturn(t, TRUE))
    /\ WF_vars(PersistOk)
    /\ WF_vars(TimerFires)

\* C36: every head h the loop has observed leads to a cursor of
\* h - confirmations or more, as long as the failures still to come are fewer
\* than the iterations left to the run (the one that observed h included
\* while it has not failed).
C36_Progress ==
    \A h \in Heads :
        (/\ latestBlock = h
         /\ \/ outcome = "running" /\ MaxFaults - faults <= MaxIter - iter
            \/ MaxFaults - faults < MaxIter - iter)
            ~> (lastProcessedBlock >= targetBlockOf(h, config))

\* the iteration that observed head 8 failed, and a second iteration has
\* brought the cursor to the target of that head
C36_Witness ==
    /\ iter = 2 /\ faults = 1
    /\ outcome = "ok"
    /\ latestBlock = 8
    /\ cursorBefore < targetBlockOf(8, config)
    /\ lastProcessedBlock = targetBlockOf(8, config)

(***************************************************************************)
(* The fetch list between its producer (handleBlobFound) and its consumer  *)
(* (processJob of the fetcher worker).                                     *)
(***************************************************************************)
MaxEnqueues == 2

\* the jobs the scanner builds from the blocks of the chain
ScannerJobs == {JobsOf(b)[i] : <<b, i>> \in {<<c, j>> \in (1..8) \X (1..MaxTxs) :
                                                j <= Len(JobsOf(c))}}

\* the list is empty, or holds one text that a writer using bigIntReplacer
\* left there
InitQueue ==
    /\ MonitorIdle /\ ScannerIdle /\ FetcherIdle /\ WorkerIdle /\ ArchiverIdle
    /\ fetchList \in {<< >>} \cup
          {JSONstringify(ProcessingJob(job), "bigIntReplacer") : job \in ScannerJobs}
    /\ enqueueLog = << >> /\ parsed = << >>

\* part_002 lines 73-91: handleBlobFound(job); ok: lpush resolves
EnqueueJob(job, ok) ==
    /\ Len(enqueueLog) < MaxEnqueues
    /\ fetchList' = handleBlobFound(fetchList, job, ok)
    /\ enqueueLog' = Append(enqueueLog,
                            [job |-> job, lpushOk |-> ok,
                             enqueued |-> Len(fetchList') > Len(fetchList)])
    /\ UNCHANGED <<archiverVars, monitorVars, scannerVars, fetcherVars, workerVars, parsed>>

\* worker.ts lines 69-72 and 41: brpop returns the last text and processJob
\* parses it
ReadJob ==
    /\ fetchList # << >>
    /\ parsed' = Append(parsed, JSONparse(fetchList[Len(fetchList)], "none"))
    /\ fetchList' = SubSeq(fetchList, 1, Len(fetchList) - 1)
    /\ UNCHANGED <<archiverVars, monitorVars, scannerVars, fetcherVars, workerVars, enqueueLog>>

NextQueue ==
    \/ \E job \in ScannerJobs, ok \in BOOLEAN : EnqueueJob(job, ok)
    \/ ReadJob

SpecQueue == InitQueue /\ [][NextQueue]_vars

\* C37 as claimed: a job handed to handleBlobFound is in the list whenever
\* lpush resolves, and every value processJob parses is, property by
\* property, a job of the scanner, its block number and timestamp big integers.
C37_Claim ==
    /\ \A k \in DOMAIN enqueueLog : enqueueLog[k].lpushOk => enqueueLog[k].enqueued
    /\ \A k \in DOMAIN parsed :
          \E job \in ScannerJobs :
              \A i \in DOMAIN parsed[k] :
                  /\ parsed[k][i].value.t = ProcessingJob(job)[i].value.t
                  /\ parsed[k][i].value.v = ProcessingJob(job)[i].value.v

(***************************************************************************)
(* processBlockRange: the sub-batches of a range.                          *)
(***************************************************************************)
\* C39: while processBlockRange is in its loop the sub-batch in flight lies
\* in [from, to], starts a whole number of batchSize blocks after from, holds
\* batchSize blocks or ends at to, every block before it has been scanned and
\* every block of it is scanned or has its task; a sub-batch starts right
\* after the end of the one before, once all blocks of that one are scanned,
\* so the loop ends after at most to - from + 1 sub-batches; the call returns
\* only with every block of [from, to] scanned; and a task is started only by
\* the call in progress, never after its range has failed.
C39_SubBatches ==
    /\ [](pc = "range" =>
            /\ fromBlock <= currentBlock /\ currentBlock <= batchEnd /\ batchEnd <= toBlock
            /\ (currentBlock - fromBlock) % batchSizeOf(config) = 0
            /\ batchEnd - currentBlock + 1 <= batchSizeOf(config)
            /\ batchEnd - currentBlock + 1 = batchSizeOf(config) \/ batchEnd = toBlock
            /\ \A b \in fromBlock..(currentBlock - 1) : b \in scanned
            /\ \A t \in CurrentTasks(tasks) : t.block \in currentBlock..batchEnd
            /\ \A b \in currentBlock..batchEnd :
                  (b \in scanned) # (\E t \in CurrentTasks(tasks) : t.block = b)
            /\ \A t, u \in CurrentTasks(tasks) : t.block = u.block => t = u)
    /\ [][/\ (pc = "range" /\ pc' = "range" /\ iter' = iter /\ currentBlock' # currentBlock) =>
                /\ currentBlock' = batchEnd + 1
                /\ \A b \in currentBlock..batchEnd : b \in scanned'
                /\ CurrentTasks(tasks') = blockPromises(currentBlock', batchEnd', iter)
          /\ (pc = "range" /\ pc' = "persist") =>
                /\ batchEnd = toBlock
                /\ \A b \in fromBlock..toBlock : b \in scanned'
                /\ CurrentTasks(tasks') = {}
          /\ \A t \in tasks' \ tasks :
                t.stage = 0 =>
                    /\ t.iter = iter' /\ pc' = "range" /\ outcome' = "running"
                    /\ iter' = iter => pc = "range" /\ outcome = "running"]_vars

\* a range of three blocks: a full sub-batch scanned, the last one short
C39_Witness ==
    /\ pc = "range"
    /\ batchSizeOf(config) = 2
    /\ currentBlock = fromBlock + 2
    /\ batchEnd = toBlock /\ batchEnd = currentBlock
    /\ \A b \in fromBlock..(currentBlock - 1) : b \in scanned

(***************************************************************************)
(* The blob archiver: archiveBlobData.                                     *)
(***************************************************************************)
MaxFetched == 3

\* line 311: Array.prototype.indexOf, -1 when x is not in the list
indexOf(list, x) ==
    IF \E i \in DOMAIN list : list[i] = x
    THEN (CHOOSE i \in DOMAIN list : list[i] = x /\ \A j \in 1..(i - 1) : list[j] # x) - 1
    ELSE -1

\* lines 310-315: the for loop, from the blob at index k on, goes past the
\* blobs whose hash is not in the expected list; the index of the blob whose
\* try block is entered next, beyond the list when there is none
RECURSIVE nextBlob(_, _)
nextBlob(job, k) ==
    IF k > Len(job.fetchedBlobs) THEN k
    ELSE IF indexOf(job.expectedBlobVersionedHashes, job.fetchedBlobs[k]) = -1
         THEN nextBlob(job, k + 1)
         ELSE k

\* mutant of overallSuccessAfter: the last blob decides
overallSuccessLast(before, settled) == settled = "cid"
\* lines 308, 366: overallSuccess after one more blob
overallSuccessAfter(before, settled) == before /\ settled = "cid"

\* lines 356-360 and 370-378: the detail entry of a blob
detailOf(versionedHash, settled) ==
    [versionedHash |-> versionedHash, success |-> settled = "cid"]

\* lines 271-295: the early return when the client or the path prefix fails
failedResult == [success |-> FALSE, hasDetails |-> FALSE, blobArchivalDetails |-> << >>]
\* lines 299-304 and 382-387
doneResult(success, details) ==
    [success |-> success, hasDetails |-> TRUE, blobArchivalDetails |-> details]

InitArchiver ==
    /\ MonitorIdle /\ ScannerIdle /\ FetcherIdle /\ WorkerIdle /\ QueueIdle
    /\ archiveJob \in
          [expectedBlobVersionedHashes : UNION {[1..n -> {"v1", "v2"}] : n \in 0..2},
           fetchedBlobs : UNION {[1..n -> {"v1", "v2", "v3"}] : n \in 0..MaxFetched}]
    /\ archivePc = "client" /\ blobAt = 0
    /\ blobArchivalDetails = << >> /\ overallSuccess = TRUE
    /\ uploads = << >> /\ archivalResult = << >>

\* lines 310-387 from the blob at index k on, with the details and the flag
\* as they are: the next upload is started, or the call returns
forLoop(k, details, success) ==
    LET at == nextBlob(archiveJob, k)
    IN /\ blobAt' = at
       /\ blobArchivalDetails' = details
       /\ overallSuccess' = success
       /\ IF at <= Len(archiveJob.fetchedBlobs)
          THEN archivePc' = "upload" /\ UNCHANGED archivalResult
          ELSE archivePc' = "done" /\ archivalResult' = <<doneResult(success, details)>>

\* lines 271-279: ensureAutoDriveClient settles
ClientSettles(ok) ==
    /\ archivePc = "client"
    /\ IF ok THEN archivePc' = "container" /\ UNCHANGED archivalResult
       ELSE archivePc' = "done" /\ archivalResult' = <<failedResult>>
    /\ UNCHANGED <<monitorVars, scannerVars, fetcherVars, workerVars, queueVars,
                   archiveJob, blobAt, blobArchivalDetails, overallSuccess, uploads>>

\* lines 281-308: ensureContainerAsPathPrefix settles; the check of the empty list
ContainerSettles(ok) ==
    /\ archivePc = "container"
    /\ IF ~ok
       THEN /\ archivePc' = "done" /\ archivalResult' = <<failedResult>>
            /\ UNCHANGED <<blobAt, blobArchivalDetails, overallSuccess>>
       ELSE IF Len(archiveJob.fetchedBlobs) = 0
       THEN /\ archivePc' = "done" /\ archivalResult' = <<doneResult(TRUE, << >>)>>
            /\ UNCHANGED <<blobAt, blobArchivalDetails, overallSuccess>>
       ELSE forLoop(1, << >>, TRUE)
    /\ UNCHANGED <<monitorVars, scannerVars, fetcherVars, workerVars, queueVars,
                   archiveJob, uploads>>

\* lines 318-379: the try block of the blob at blobAt ends: the upload gave a
\* CID string, gave no CID string, or something in the block threw
UploadSettles(settled) ==
    /\ archivePc = "upload"
    /\ uploads' = Append(uploads, [at |-> blobAt, outcome |-> settled])
    /\ forLoop(blobAt + 1,
               Append(blobArchivalDetails, detailOf(archiveJob.fetchedBlobs[blobAt], settled)),
               overallSuccessAfter(overallSuccess, settled))
    /\ UNCHANGED <<monitorVars, scannerVars, fetcherVars, workerVars, queueVars, archiveJob>>

NextArchiver ==
    \/ \E ok \in BOOLEAN : ClientSettles(ok)
    \/ \E ok \in BOOLEAN : ContainerSettles(ok)
    \/ \E settled \in {"cid", "noCid", "throws"} : UploadSettles(settled)

SpecArchiver == InitArchiver /\ [][NextArchiver]_vars

\* C40 as claimed: whenever archiveBlobData has returned, success is true
\* exactly when no attempted blob failed, and with an empty fetched-blob list
\* it is true with no details.
C40_Claim ==
    archivalResult # << >> =>
        /\ archivalResult[1].success = (\A k \in DOMAIN uploads : uploads[k].outcome = "cid")
        /\ Len(archiveJob.fetchedBlobs) = 0 =>
              /\ archivalResult[1].success
              /\ archivalResult[1].hasDetails
              /\ archivalResult[1].blobArchivalDetails = << >>

\* C40 amended: once the storage client and the path prefix are available,
\* archiveBlobData attempts exactly the fetched blobs whose hash is in the
\* expected list, in order and whatever happened to the earlier ones, records
\* one detail entry per attempt, returns success exactly when no attempt
\* failed, and returns success with no details for an empty list.
C40_ArchiveEveryExpected ==
    (archivalResult # << >> /\ archivalResult[1].hasDetails) =>
        LET fetched == archiveJob.fetchedBlobs
            expectedAt == {k \in DOMAIN fetched :
                             \E i \in DOMAIN archiveJob.expectedBlobVersionedHashes :
                                 archiveJob.expectedBlobVersionedHashes[i] = fetched[k]}
            details == archivalResult[1].blobArchivalDetails
        IN /\ {uploads[k].at : k \in DOMAIN uploads} = expectedAt
           /\ Len(uploads) = Cardinality(expectedAt)
           /\ \A j, k \in DOMAIN uploads : j < k => uploads[j].at < uploads[k].at
           /\ Len(details) = Len(uploads)
           /\ \A k \in DOMAIN uploads :
                 /\ details[k].versionedHash = fetched[uploads[k].at]
                 /\ details[k].success = (uploads[k].outcome = "cid")
           /\ archivalResult[1].success = (\A k \in DOMAIN uploads : uploads[k].outcome = "cid")
           /\ Len(fetched) = 0 => archivalResult[1].success /\ details = << >>

\* three blobs were fetched: the first failed, the second is not expected and
\* was skipped, the third was uploaded; the call returned failure with two details
C40_Witness ==
    /\ archivalResult # << >>
    /\ Len(archiveJob.fetchedBlobs) = 3
    /\ Len(uploads) = 2
    /\ uploads[1].at = 1 /\ uploads[1].outcome = "throws"
    /\ uploads[2].at = 3 /\ uploads[2].outcome = "cid"
    /\ ~archivalResult[1].success
    /\ Len(archivalResult[1].blobArchivalDetails) = 2

====
